---- MODULE Spec2Model ----
(***************************************************************************)
(* Byte-level model of the WAL decoder of wal_analyzer.                    *)
(*                                                                         *)
(* A byte is a number in 0..255 and a buffer is a sequence of bytes.  A    *)
(* nom parser `fn(i) -> IResult<&[u8], T, XLogError>` is an operator that  *)
(* maps the buffer to either Ok(rest, val) or Err(kind, tag, args), where   *)
(* kind is nom's Err variant (Error, Failure, Incomplete) or "Panic" for   *)
(* an abort of the program.                                                *)
(*                                                                         *)
(* The state machine is a driver: Init chooses the function under test     *)
(* and its input buffer, one action per function applies it and records    *)
(* the result.                                                             *)
(***************************************************************************)
EXTENDS Integers, Sequences, FiniteSets, TLC

VARIABLES
    fn,               \* the function the driver calls
    input,            \* the byte buffer handed to it
    arg,              \* its scalar argument (consume_padding's size), else 0
    overflow_checks,  \* TRUE: built with overflow checks (debug), FALSE: release
    pc,               \* "call" before the function ran, "return" after
    res,              \* the function's result
    f,                \* XLogReader.f: the bytes of the segment file and the read position
    page,             \* XLogReader.page: the records of the last page read, if any
    yielded,          \* history: what the calls of XLogReader::next returned, in order
    pages,            \* PageMapping.pages: page identity -> 8192-byte page
    record            \* the record handed to PageMapping::apply_xlog_record

vars == <<fn, input, arg, overflow_checks, pc, res, f, page, yielded, pages, record>>

----------------------------------------------------------------------------
(* Results *)

Ok(rest, val) == [ok |-> TRUE, rest |-> rest, val |-> val]

Err(kind, tag, args) == [ok |-> FALSE, kind |-> kind, tag |-> tag, args |-> args]

NoResult == Err("None", "None", <<>>)

\* nom's complete parsers on a short buffer: Err::Error(from_error_kind(i, Eof))
NomEof == Err("Error", "NomParseError", <<>>)

\* an arithmetic overflow, slice index or todo!() abort
Panic(what) == Err("Panic", what, <<>>)

IsErr(r, tag) == ~r.ok /\ r.tag = tag

Only(S) == CHOOSE x \in S : TRUE

\* `let x = v;`: v is computed once and the rest of the function runs on it
Let(v, then(_)) == Only({then(x) : x \in {v}})

\* `let (i, x) = parser(i)?;`: on an Ok the rest of the function runs on it,
\* an Err is returned as it is
Try(r, then(_)) == Only({IF x.ok THEN then(x) ELSE x : x \in {r}})

----------------------------------------------------------------------------
(* Integers of the program *)

RECURSIVE BitAnd(_, _)
BitAnd(a, b) ==
    IF a = 0 \/ b = 0 THEN 0
    ELSE (a % 2) * (b % 2) + 2 * BitAnd(a \div 2, b \div 2)

Zeros(n) == [k \in 1..n |-> 0]

LE16(v) == <<v % 256, (v \div 256) % 256>>

LE32(v) == <<v % 256, (v \div 256) % 256, (v \div 65536) % 256, (v \div 16777216) % 256>>

----------------------------------------------------------------------------
(* Framing primitives *)

take(n, i) ==
    IF Len(i) < n THEN NomEof
    ELSE Ok(SubSeq(i, n + 1, Len(i)), SubSeq(i, 1, n))

le_u8(i) ==
    IF Len(i) < 1 THEN NomEof ELSE Ok(Tail(i), i[1])

le_u16(i) ==
    IF Len(i) < 2 THEN NomEof
    ELSE Ok(SubSeq(i, 3, Len(i)), i[1] + 256 * i[2])

\* the inputs keep the top byte below 0x80, so that the value is a TLC integer
le_u32(i) ==
    IF Len(i) < 4 THEN NomEof
    ELSE Ok(SubSeq(i, 5, Len(i)), i[1] + 256 * i[2] + 65536 * i[3] + 16777216 * i[4])

\* a u64 field is kept as its 8 bytes: no claim computes with one
le_u64(i) ==
    IF Len(i) < 8 THEN NomEof
    ELSE Ok(SubSeq(i, 9, Len(i)), SubSeq(i, 1, 8))

----------------------------------------------------------------------------
(* Block-reference decoder: src/src/xlog/block.rs *)

BKPBLOCK_FORK_MASK == 15

BKPBLOCK_FLAG_MASK == 240

BKPBLOCK_HAS_IMAGE == 16

BKPBLOCK_HAS_DATA == 32

BKPBLOCK_SAME_REL == 128

XLR_BLOCK_ID_DATA_LONG == 254

XLR_BLOCK_ID_DATA_SHORT == 255

BKPIMAGE_HAS_HOLE == 1

BKPIMAGE_IS_COMPRESSED == 2

BKPIMAGE_APPLY == 4

XLR_MAX_BLOCK_ID == 32

BLCKSZ == 8192

None == [some |-> FALSE]

Some(v) == [some |-> TRUE, v |-> v]

\* ForkNumber::try_from: Main, Fsm, VisibilityMap, Init
ForkNumber_try_from(byte) ==
    IF byte <= 3 THEN Ok(<<>>, byte) ELSE Err("Error", "InvalidForkNumber", <<byte>>)

parse_relfilenode(i) ==
    Try(le_u32(i), LAMBDA r1 :
    Try(le_u32(r1.rest), LAMBDA r2 :
    Try(le_u32(r2.rest), LAMBDA r3 :
    Ok(r3.rest, [spc_node |-> r1.val, db_node |-> r2.val, rel_node |-> r3.val]))))

\* `BLCKSZ - bimg_len` on u16: aborts when built with overflow checks, wraps otherwise
BlckszMinus(bimg_len) ==
    IF bimg_len <= BLCKSZ THEN Ok(<<>>, BLCKSZ - bimg_len)
    ELSE IF overflow_checks THEN Panic("attempt to subtract with overflow")
    ELSE Ok(<<>>, (BLCKSZ - bimg_len + 65536) % 65536)

ImageHoleRejected(has_hole, hole_offset, hole_length, bimg_len) ==
    has_hole /\ (hole_offset = 0 \/ hole_length = 0 \/ bimg_len = BLCKSZ)

\* the hole_length of parse_block_image: read, 0, or `BLCKSZ - bimg_len`
ImageHoleLength(i, is_compressed, has_hole, bimg_len) ==
    IF is_compressed
    THEN IF has_hole THEN le_u16(i) ELSE Ok(i, 0)
    ELSE Try(BlckszMinus(bimg_len), LAMBDA d : Ok(i, d.val))

parse_block_image(i) ==
    Try(le_u16(i), LAMBDA r1 :
    Try(le_u16(r1.rest), LAMBDA r2 :
    Try(le_u8(r2.rest), LAMBDA r3 :
    LET bimg_len == r1.val
        hole_offset == r2.val
        bimg_info == r3.val
        apply_image == BitAnd(bimg_info, BKPIMAGE_APPLY) # 0
        is_compressed == BitAnd(bimg_info, BKPIMAGE_IS_COMPRESSED) # 0
        has_hole == BitAnd(bimg_info, BKPIMAGE_HAS_HOLE) # 0
    IN
    Try(ImageHoleLength(r3.rest, is_compressed, has_hole, bimg_len), LAMBDA r4 :
    LET hole_length == r4.val IN
    IF ImageHoleRejected(has_hole, hole_offset, hole_length, bimg_len)
    THEN Err("Error", "InvalidBlockImageHole", <<hole_offset, hole_length, bimg_len>>)
    ELSE Ok(r4.rest, [apply_image |-> apply_image,
                      hole_offset |-> hole_offset,
                      hole_length |-> hole_length,
                      bimg_len |-> bimg_len,
                      bimg_info |-> bimg_info,
                      bkp_image |-> Zeros(bimg_len)])))))

\* `blk_id > XLR_MAX_BLOCK_ID`: the id is no data block reference
EndsBlockHeaders(blk_id) == blk_id > XLR_MAX_BLOCK_ID

\* a check that lets a repeated id through
BlockIdOutOfOrder_below(previous_block, blk_id) ==
    previous_block.some /\ blk_id < previous_block.v.blk_id

\* `previous_block.is_some_and(|x| blk_id <= x.blk_id)`
BlockIdOutOfOrder(previous_block, blk_id) ==
    previous_block.some /\ blk_id <= previous_block.v.blk_id

\* the image of parse_data_block_header: `if has_image { parse_block_image } else { None }`
BlockImageHeader(i, has_image) ==
    IF has_image
    THEN Try(parse_block_image(i), LAMBDA im : Ok(im.rest, Some(im.val)))
    ELSE Ok(i, None)

\* the locator of parse_data_block_header: the previous block's under
\* BKPBLOCK_SAME_REL, else read from the buffer
\* a decoder that reads a locator whatever the flags
BlockLocator_always_read(previous_block, i, fork_flags) == parse_relfilenode(i)

\* the locator of a block: `if fork_flags & BKPBLOCK_SAME_REL != 0 { .. } else { parse_relfilenode(i)? }`
BlockLocator(previous_block, i, fork_flags) ==
    IF BitAnd(fork_flags, BKPBLOCK_SAME_REL) # 0
    THEN IF ~previous_block.some
         THEN Err("Error", "OutOfOrderBlock", <<>>)
         ELSE IF previous_block.v.page_id.some
         THEN Ok(i, previous_block.v.page_id.v.locator)
         ELSE Err("Error", "OutOfOrderBlock", <<>>)
    ELSE parse_relfilenode(i)

parse_data_block_header(previous_block, i) ==
    Try(le_u8(i), LAMBDA r1 :
    LET blk_id == r1.val IN
    IF EndsBlockHeaders(blk_id) THEN Err("Error", "EndBlock", <<>>) ELSE
    IF BlockIdOutOfOrder(previous_block, blk_id)
    THEN Err("Error", "InvalidBlockId", <<previous_block.v.blk_id, blk_id>>) ELSE
    Try(le_u8(r1.rest), LAMBDA r2 :
    LET fork_flags == r2.val IN
    Try(ForkNumber_try_from(BitAnd(fork_flags, BKPBLOCK_FORK_MASK)), LAMBDA rf :
    LET flags == BitAnd(fork_flags, BKPBLOCK_FLAG_MASK)
        has_image == BitAnd(fork_flags, BKPBLOCK_HAS_IMAGE) > 0
        has_data == BitAnd(fork_flags, BKPBLOCK_HAS_DATA) > 0
    IN
    Try(le_u16(r2.rest), LAMBDA r3 :
    LET data_len == r3.val IN
    IF has_data /\ data_len = 0 THEN Err("Error", "MissingBlockDataLen", <<>>) ELSE
    IF ~has_data /\ data_len > 0 THEN Err("Error", "UnexpectedBlockDataLen", <<data_len>>) ELSE
    Try(BlockImageHeader(r3.rest, has_image), LAMBDA r4 :
    Try(BlockLocator(previous_block, r4.rest, fork_flags), LAMBDA r5 :
    Try(le_u32(r5.rest), LAMBDA r6 :
    Ok(r6.rest, [blk_id |-> blk_id,
                 page_id |-> Some([locator |-> r5.val, blockno |-> r6.val, fork |-> rf.val]),
                 flags |-> flags,
                 image |-> r4.val,
                 has_data |-> has_data,
                 data_len |-> data_len,
                 data |-> Zeros(data_len)]))))))))

LastBlock(blocks) == IF blocks = <<>> THEN None ELSE Some(blocks[Len(blocks)])

\* the `loop` of parse_blocks: block headers until EndBlock
RECURSIVE BlockHeaders(_, _)
BlockHeaders(blocks, i) ==
    Let(parse_data_block_header(LastBlock(blocks), i), LAMBDA r :
    IF r.ok THEN BlockHeaders(Append(blocks, r.val), r.rest)
    ELSE IF r.kind = "Error" /\ r.tag = "EndBlock" THEN Ok(i, blocks)
    ELSE r)

\* one turn of the `for block in &mut blocks` of parse_blocks: image bytes, then data bytes
BlockPayload(block, i) ==
    Try(IF block.image.some THEN take(block.image.v.bimg_len, i) ELSE Ok(i, <<>>), LAMBDA ri :
    Try(take(block.data_len, ri.rest), LAMBDA rd :
    Ok(rd.rest, [block EXCEPT !.image = IF block.image.some
                                        THEN Some([block.image.v EXCEPT !.bkp_image = ri.val])
                                        ELSE None,
                              !.data = rd.val])))

RECURSIVE BlockPayloads(_, _, _)
BlockPayloads(blocks, k, i) ==
    IF k > Len(blocks) THEN Ok(i, blocks) ELSE
    Try(BlockPayload(blocks[k], i), LAMBDA r :
    BlockPayloads([blocks EXCEPT ![k] = r.val], k + 1, r.rest))

\* a decoder without the check of the bytes left over
LeftoverRejected_never(i) == FALSE

\* `if !input.is_empty()` after the payloads
LeftoverRejected(i) == i # <<>>

parse_blocks(i) ==
    Try(BlockHeaders(<<>>, i), LAMBDA rh :
    Try(BlockPayloads(rh.val, 1, rh.rest), LAMBDA rp :
    IF LeftoverRejected(rp.rest) THEN Err("Error", "LeftoverBytes", rp.rest)
    ELSE Ok(rp.rest, [main_block_start |-> rh.rest, blocks |-> rp.val])))

----------------------------------------------------------------------------
(* Heap operation decoder: src/src/xlog/operation/heap.rs *)

parse_infobits(i) ==
    Try(le_u8(i), LAMBDA r :
    Ok(r.rest, [xmax_is_multi |-> BitAnd(r.val, 1) # 0,
                xmax_lock_only |-> BitAnd(r.val, 2) # 0,
                xmax_excl_lock |-> BitAnd(r.val, 4) # 0,
                xmax_keyshare_lock |-> BitAnd(r.val, 8) # 0,
                keys_updated |-> BitAnd(r.val, 16) # 0]))

parse_heap_insert(i) ==
    Try(le_u16(i), LAMBDA r1 :
    Try(le_u8(r1.rest), LAMBDA r2 :
    LET flags == r2.val IN
    Ok(r2.rest, [op |-> "Insert",
                 offnum |-> r1.val,
                 all_visible_cleared |-> BitAnd(flags, 1) # 0,
                 last_in_multi |-> BitAnd(flags, 2) # 0,
                 is_speculative |-> BitAnd(flags, 4) # 0,
                 contains_new_tuple |-> BitAnd(flags, 8) # 0,
                 on_toast_relation |-> BitAnd(flags, 16) # 0,
                 all_frozen_set |-> BitAnd(flags, 32) # 0])))

parse_heap_delete(i) ==
    Try(le_u32(i), LAMBDA r1 :
    Try(le_u16(r1.rest), LAMBDA r2 :
    Try(parse_infobits(r2.rest), LAMBDA r3 :
    Try(le_u8(r3.rest), LAMBDA r4 :
    LET flags == r4.val IN
    Ok(r4.rest, [op |-> "Delete",
                 xmax |-> r1.val,
                 offnum |-> r2.val,
                 infobits |-> r3.val,
                 all_visible_cleared |-> BitAnd(flags, 1) # 0,
                 contains_old_tuple |-> BitAnd(flags, 2) # 0,
                 contains_old_key |-> BitAnd(flags, 4) # 0,
                 is_super |-> BitAnd(flags, 8) # 0,
                 is_partition_move |-> BitAnd(flags, 16) # 0])))))

parse_heap_update(i) ==
    Try(le_u32(i), LAMBDA r1 :
    Try(le_u16(r1.rest), LAMBDA r2 :
    Try(parse_infobits(r2.rest), LAMBDA r3 :
    Try(le_u8(r3.rest), LAMBDA r4 :
    Try(le_u32(r4.rest), LAMBDA r5 :
    Try(le_u16(r5.rest), LAMBDA r6 :
    LET flags == r4.val IN
    Ok(r6.rest, [op |-> "Update",
                 old_xmax |-> r1.val,
                 old_offnum |-> r2.val,
                 old_infobits |-> r3.val,
                 old_all_visible_cleared |-> BitAnd(flags, 1) # 0,
                 new_all_visible_cleared |-> BitAnd(flags, 2) # 0,
                 contains_old_tuple |-> BitAnd(flags, 4) # 0,
                 contains_new_tuple |-> BitAnd(flags, 8) # 0,
                 prefix_from_old |-> BitAnd(flags, 16) # 0,
                 suffix_from_old |-> BitAnd(flags, 32) # 0,
                 new_xmax |-> r5.val,
                 new_offnum |-> r6.val])))))))

XLOG_HEAP_OPMASK == 112

\* the `match rmgr_info & XLOG_HEAP_OPMASK` of parse_heap_operation
HeapOperation(op, i) ==
    CASE op = 0 -> parse_heap_insert(i)
      [] op = 16 -> parse_heap_delete(i)
      [] op = 32 -> parse_heap_update(i)
      [] op = 48 -> Panic("not yet implemented: truncate")
      [] op = 64 -> Panic("not yet implemented: hot update")
      [] OTHER -> Ok(i, [op |-> "Placeholder"])

parse_heap_operation(rmgr_info, i) ==
    Try(HeapOperation(BitAnd(rmgr_info, XLOG_HEAP_OPMASK), i), LAMBDA r :
    Ok(r.rest, [rm |-> "Heap", heap |-> r.val]))

----------------------------------------------------------------------------
(* Record decoder: src/src/xlog/record.rs *)

XLOG_RECORD_HEADER_SIZE == 24

RmgrNames ==
    <<"Xlog", "Transaction", "Storage", "Clog", "Database", "Tablespace",
      "MultiXact", "RelMap", "Standby", "Heap2", "Heap", "Btree", "Hash", "Gin",
      "Gist", "Sequence", "Spgist", "Brin", "CommitTs", "ReplicationOrigin",
      "Generic", "LogicalMsg">>

RmgrId_try_from(byte) ==
    IF byte < Len(RmgrNames) THEN Ok(<<>>, RmgrNames[byte + 1])
    ELSE Err("Error", "InvalidResourceManager", <<byte>>)

\* `padding.iter().all(|x| *x != 0)`
PaddingRejected(padding) == \A k \in 1..Len(padding) : padding[k] # 0

consume_padding(i, size) ==
    IF size = 0 THEN Ok(i, <<>>) ELSE
    Try(take(size, i), LAMBDA r :
    IF size > 8 THEN Err("Error", "IncorrectPaddingLength", <<size>>) ELSE
    IF PaddingRejected(r.val) THEN Err("Error", "IncorrectPaddingValue", r.val)
    ELSE Ok(r.rest, <<>>))

\* `xl_tot_len as usize - XLOG_RECORD_HEADER_SIZE` and the check `i.len() < data_len`:
\* on underflow the build with overflow checks aborts, the other wraps to a
\* length no buffer has
RecordDataLen(xl_tot_len, avail) ==
    IF xl_tot_len < XLOG_RECORD_HEADER_SIZE
    THEN IF overflow_checks THEN Panic("attempt to subtract with overflow")
         ELSE Err("Incomplete", "Needed", <<>>)
    ELSE IF avail < xl_tot_len - XLOG_RECORD_HEADER_SIZE
         THEN Err("Incomplete", "Needed", <<xl_tot_len - XLOG_RECORD_HEADER_SIZE>>)
         ELSE Ok(<<>>, xl_tot_len - XLOG_RECORD_HEADER_SIZE)

\* a check that takes the header to end before its checksum
HeaderIncomplete_at20(len) == len < XLOG_RECORD_HEADER_SIZE - 4

\* `if i.len() < header_size`
HeaderIncomplete(len) == len < XLOG_RECORD_HEADER_SIZE

\* `if xl_tot_len == 0`
IsEmptyRecord(xl_tot_len) == xl_tot_len = 0

parse_xlog_record_header(i) ==
    IF HeaderIncomplete(Len(i))
    THEN Err("Incomplete", "Needed", <<XLOG_RECORD_HEADER_SIZE - Len(i)>>) ELSE
    Try(le_u32(i), LAMBDA r1 :
    LET xl_tot_len == r1.val IN
    IF IsEmptyRecord(xl_tot_len) THEN Err("Error", "EmptyRecord", <<>>) ELSE
    Try(le_u32(r1.rest), LAMBDA r2 :
    Try(le_u64(r2.rest), LAMBDA r3 :
    Try(le_u8(r3.rest), LAMBDA r4 :
    LET xl_info == r4.val IN
    Try(le_u8(r4.rest), LAMBDA r5 :
    Try(RmgrId_try_from(r5.val), LAMBDA rm :
    Try(consume_padding(r5.rest, 2), LAMBDA r6 :
    Try(le_u32(r6.rest), LAMBDA r7 :
    Try(RecordDataLen(xl_tot_len, Len(r7.rest)), LAMBDA rl :
    Ok(r7.rest, [xl_tot_len |-> xl_tot_len,
                 xl_xid |-> r2.val,
                 xl_prev |-> r3.val,
                 special_rel_update |-> BitAnd(xl_info, 1) # 0,
                 check_consistency |-> BitAnd(xl_info, 2) # 0,
                 rmgr_info |-> BitAnd(xl_info, 240),
                 xl_rmid |-> rm.val,
                 xl_crc |-> r7.val]))))))))))

\* the size handed to consume_padding after the record: `i.len() % 8`
RecordPadding(xl_tot_len, rest_len) == rest_len % 8

\* where the operation decoder of the record starts reading
OperationInput(main_block_start) == main_block_start

\* the `match header.xl_rmid` of parse_xlog_record
RecordOperation(header, main_block_start) ==
    IF header.xl_rmid = "Heap"
    THEN parse_heap_operation(header.rmgr_info, OperationInput(main_block_start))
    ELSE Ok(main_block_start, [rm |-> header.xl_rmid])

parse_xlog_record(i) ==
    Try(parse_xlog_record_header(i), LAMBDA rh :
    LET header == rh.val
        record_length == header.xl_tot_len - XLOG_RECORD_HEADER_SIZE
    IN
    Try(parse_blocks(SubSeq(rh.rest, 1, record_length)), LAMBDA rb :
    Try(RecordOperation(header, rb.val.main_block_start), LAMBDA ro :
    Let(SubSeq(rh.rest, record_length + 1, Len(rh.rest)), LAMBDA after :
    Try(consume_padding(after, RecordPadding(header.xl_tot_len, Len(after))), LAMBDA rp :
    Ok(rp.rest, [header |-> header, blocks |-> rb.val.blocks, operation |-> ro.val]))))))

----------------------------------------------------------------------------
(* Block-reference decoder with a main-data header: src/src/xlog_block.rs. *)
(* Its parse_data_block_header and parse_block_image are those of          *)
(* src/src/xlog/block.rs; rnode, blkno and fork_num are held in page_id.   *)

\* `blk_id < XLR_BLOCK_ID_DATA_LONG`: not a main-data header
NotMainDataId(blk_id) == blk_id < XLR_BLOCK_ID_DATA_LONG

\* the data_len of a main-data header: one byte under the short id, else two
MainDataLen(blk_id, i) ==
    IF blk_id = XLR_BLOCK_ID_DATA_SHORT THEN le_u8(i) ELSE le_u16(i)

xlog_block_parse_main_data_block_header(i) ==
    Try(le_u8(i), LAMBDA r1 :
    LET blk_id == r1.val IN
    IF NotMainDataId(blk_id) THEN Err("Error", "IncorrectId", <<blk_id>>) ELSE
    Try(MainDataLen(blk_id, r1.rest), LAMBDA r2 :
    Ok(r2.rest, [blk_id |-> blk_id,
                 page_id |-> None,
                 flags |-> 0,
                 image |-> None,
                 has_data |-> TRUE,
                 data_len |-> r2.val,
                 data |-> Zeros(r2.val)])))

xlog_block_parse_blocks(i) ==
    Try(BlockHeaders(<<>>, i), LAMBDA rh :
    Try(xlog_block_parse_main_data_block_header(rh.rest), LAMBDA rm :
    Try(BlockPayloads(Append(rh.val, rm.val), 1, rm.rest), LAMBDA rp :
    Ok(rp.rest, rp.val))))

----------------------------------------------------------------------------
(* The first record decoder: src/src/xlog_record.rs *)

xlog_record_consume_padding(i, size) ==
    Try(take(size, i), LAMBDA r :
    IF PaddingRejected(r.val) THEN Err("Error", "IncorrectPaddingValue", r.val)
    ELSE Ok(r.rest, <<>>))

\* RmgrId::from: every byte has a resource manager, Unused(byte) past LogicalMsg
RmgrId_from(byte) ==
    IF byte < Len(RmgrNames) THEN RmgrNames[byte + 1] ELSE "Unused"

xlog_record_parse_xlog_record_header(i) ==
    IF HeaderIncomplete(Len(i))
    THEN Err("Incomplete", "Needed", <<XLOG_RECORD_HEADER_SIZE - Len(i)>>) ELSE
    Try(le_u32(i), LAMBDA r1 :
    LET xl_tot_len == r1.val IN
    IF IsEmptyRecord(xl_tot_len) THEN Err("Error", "EmptyRecord", <<>>) ELSE
    Try(le_u32(r1.rest), LAMBDA r2 :
    Try(le_u64(r2.rest), LAMBDA r3 :
    Try(le_u8(r3.rest), LAMBDA r4 :
    Try(le_u8(r4.rest), LAMBDA r5 :
    Try(xlog_record_consume_padding(r5.rest, 2), LAMBDA r6 :
    Try(le_u32(r6.rest), LAMBDA r7 :
    Try(RecordDataLen(xl_tot_len, Len(r7.rest)), LAMBDA rl :
    Ok(r7.rest, [xl_tot_len |-> xl_tot_len,
                 xl_xid |-> r2.val,
                 xl_prev |-> r3.val,
                 xl_info |-> r4.val,
                 xl_rmid |-> RmgrId_from(r5.val),
                 xl_crc |-> r7.val])))))))))

xlog_record_parse_main_data_block_header(i) ==
    Try(le_u8(i), LAMBDA r1 :
    LET blk_id == r1.val IN
    IF blk_id # XLR_BLOCK_ID_DATA_SHORT /\ blk_id # XLR_BLOCK_ID_DATA_LONG
    THEN Err("Error", "IncorrectId", <<blk_id>>) ELSE
    Try(MainDataLen(blk_id, r1.rest), LAMBDA r2 :
    Ok(r2.rest, [blk_id |-> blk_id, fork_num |-> 0, flags |-> 0,
                 has_image |-> FALSE, has_data |-> TRUE,
                 data_len |-> r2.val, data |-> Zeros(r2.val)])))

xlog_record_parse_data_block_header(i) ==
    Try(le_u8(i), LAMBDA r1 :
    LET blk_id == r1.val IN
    IF blk_id = XLR_BLOCK_ID_DATA_SHORT THEN Err("Error", "EndBlock", <<>>) ELSE
    Try(le_u8(r1.rest), LAMBDA r2 :
    LET fork_flags == r2.val IN
    Try(le_u16(r2.rest), LAMBDA r3 :
    Ok(r3.rest, [blk_id |-> blk_id,
                 fork_num |-> BitAnd(fork_flags, BKPBLOCK_FORK_MASK),
                 flags |-> BitAnd(fork_flags, BKPBLOCK_FLAG_MASK),
                 has_image |-> BitAnd(fork_flags, BKPBLOCK_HAS_IMAGE) > 0,
                 has_data |-> BitAnd(fork_flags, BKPBLOCK_HAS_DATA) > 0,
                 data_len |-> r3.val, data |-> Zeros(r3.val)]))))

\* nom's many0(parse_data_block_header): until the parser returns Err::Error
RECURSIVE Many0DataBlockHeaders(_, _)
Many0DataBlockHeaders(acc, i) ==
    Let(xlog_record_parse_data_block_header(i), LAMBDA r :
    IF r.ok THEN Many0DataBlockHeaders(Append(acc, r.val), r.rest)
    ELSE IF r.kind = "Error" THEN Ok(i, acc)
    ELSE r)

xlog_record_parse_block_headers(i) ==
    Try(Many0DataBlockHeaders(<<>>, i), LAMBDA rd :
    Try(xlog_record_parse_main_data_block_header(rd.rest), LAMBDA rm :
    Ok(rm.rest, Append(rd.val, rm.val))))

\* the `for data_block in &mut blocks` of parse_xlog_record
RECURSIVE RecordBlockData(_, _, _)
RecordBlockData(blocks, k, i) ==
    IF k > Len(blocks) THEN Ok(i, blocks) ELSE
    Try(take(blocks[k].data_len, i), LAMBDA rd :
    RecordBlockData([blocks EXCEPT ![k].data = rd.val], k + 1, rd.rest))

xlog_record_parse_xlog_record(i) ==
    Try(xlog_record_parse_xlog_record_header(i), LAMBDA rh :
    Try(xlog_record_parse_block_headers(rh.rest), LAMBDA rb :
    Try(RecordBlockData(rb.val, 1, rb.rest), LAMBDA rd :
    Try(xlog_record_consume_padding(rd.rest,
                                    RecordPadding(rh.val.xl_tot_len, Len(rd.rest))), LAMBDA rp :
    Ok(rp.rest, [header |-> rh.val, blocks |-> rd.val])))))

----------------------------------------------------------------------------
(* Page-header decoder: src/src/xlog_page.rs, src/src/xlog_page_header.rs *)

XLP_LONG_HEADER == 2

XLP_ALL_FLAGS == 15

XLP_MAGIC == 53517

\* mem::size_of::<XLogShortPageHeader>(): 20 bytes of fields, aligned to 8
ShortPageHeaderSize == 24

\* mem::size_of::<XLogLongPageHeader>()
LongPageHeaderSize == 40

\* `xlp_magic != XLP_MAGIC`, the one validity check of the header
PageHeaderRejected(xlp_magic) == xlp_magic # XLP_MAGIC

\* the fields of a long header after the standard ones
LongPageHeader(std, start_size, i) ==
    IF start_size < LongPageHeaderSize
    THEN Err("Incomplete", "Needed", <<LongPageHeaderSize - start_size>>) ELSE
    Try(xlog_record_consume_padding(i, 4), LAMBDA r6 :
    Try(le_u64(r6.rest), LAMBDA r7 :
    Try(le_u32(r7.rest), LAMBDA r8 :
    Try(le_u32(r8.rest), LAMBDA r9 :
    Ok(r9.rest, [type |-> "Long", std |-> std, xlp_sysid |-> r7.val,
                 xlp_seg_size |-> r8.val, xlp_xlog_blcksz |-> r9.val])))))

parse_xlog_page_header(i) ==
    LET start_size == Len(i) IN
    IF start_size < ShortPageHeaderSize
    THEN Err("Incomplete", "Needed", <<ShortPageHeaderSize - start_size>>) ELSE
    Try(le_u16(i), LAMBDA r1 :
    IF PageHeaderRejected(r1.val)
    THEN Err("Failure", "InvalidPageHeader", <<>>) ELSE
    Try(le_u16(r1.rest), LAMBDA r2 :
    Try(le_u32(r2.rest), LAMBDA r3 :
    Try(le_u64(r3.rest), LAMBDA r4 :
    Try(le_u32(r4.rest), LAMBDA r5 :
    LET std == [xlp_magic |-> r1.val, xlp_info |-> r2.val, xlp_tli |-> r3.val,
                xlp_pageaddr |-> r4.val, xlp_rem_len |-> r5.val]
    IN
    IF BitAnd(std.xlp_info, XLP_LONG_HEADER) = 0
    THEN Ok(r5.rest, [type |-> "Short", std |-> std])
    ELSE LongPageHeader(std, start_size, r5.rest))))))

\* src/src/xlog_page_header.rs: the short header only, 20 bytes
xlog_page_header_parse_xlog_page_header(i) ==
    IF Len(i) < 20 THEN Err("Incomplete", "Needed", <<20 - Len(i)>>) ELSE
    Try(le_u16(i), LAMBDA r1 :
    IF PageHeaderRejected(r1.val)
    THEN Err("Error", "InvalidPageHeader", <<>>) ELSE
    Try(le_u16(r1.rest), LAMBDA r2 :
    Try(le_u32(r2.rest), LAMBDA r3 :
    Try(le_u64(r3.rest), LAMBDA r4 :
    Try(le_u32(r4.rest), LAMBDA r5 :
    Ok(r5.rest, [xlp_magic |-> r1.val, xlp_info |-> r2.val, xlp_tli |-> r3.val,
                 xlp_pageaddr |-> r4.val, xlp_rem_len |-> r5.val]))))))

----------------------------------------------------------------------------
(* Page decoder and segment reader: src/src/xlog_page.rs,                  *)
(* src/src/xlog_record.rs, src/src/xlog_reader.rs                          *)

\* multi::many1(parse_xlog_record): records until the decoder reports an
\* Error; an Error on the first record is the error of many1, an Incomplete
\* or a Failure is returned as it is, a record that consumed nothing is an
\* Error
RECURSIVE Many1Records(_, _)
Many1Records(acc, i) ==
    Let(xlog_record_parse_xlog_record(i), LAMBDA r :
    IF r.ok
    THEN IF Len(r.rest) = Len(i) THEN Err("Error", "NomParseError", <<>>)
         ELSE Many1Records(Append(acc, r.val), r.rest)
    ELSE IF r.kind = "Error"
    THEN IF acc = <<>> THEN Err("Error", "NomParseError", <<>>) ELSE Ok(i, acc)
    ELSE r)

parse_xlog_records(i) == Many1Records(<<>>, i)

parse_xlog_page(i) ==
    Try(parse_xlog_page_header(i), LAMBDA rh :
    Try(parse_xlog_records(rh.rest), LAMBDA rr :
    Ok(rr.rest, [page_header |-> rh.val, records |-> rr.val])))

\* nom::Finish::finish: an Incomplete aborts the program, an Error or a
\* Failure becomes the error of the Result
finish(r) ==
    IF r.ok THEN r
    ELSE IF r.kind = "Incomplete" THEN Panic("finish() on Err::Incomplete")
    ELSE Err("ParseError", r.tag, r.args)

\* the size of XLogReader.buffer
ReaderBufferSize == 8192

\* File::read_exact into the 8192-byte buffer: the next 8192 bytes of the
\* file, or UnexpectedEof with the file at its end
read_exact(file) ==
    IF Len(file.data) - file.pos >= ReaderBufferSize
    THEN Ok([file EXCEPT !.pos = file.pos + ReaderBufferSize],
            SubSeq(file.data, file.pos + 1, file.pos + ReaderBufferSize))
    ELSE [ok |-> FALSE, kind |-> "IoError", tag |-> "UnexpectedEof", args |-> <<>>,
          rest |-> [file EXCEPT !.pos = Len(file.data)]]

\* XLogReader::read_next_page; rest is the file after the read
read_next_page(file) ==
    Let(read_exact(file), LAMBDA rb :
    IF ~rb.ok THEN rb
    ELSE Let(finish(parse_xlog_page(rb.val)), LAMBDA rp :
         IF rp.ok THEN Ok(rb.rest, rp.val)
         ELSE rp @@ [rest |-> rb.rest]))

\* `self.page.as_ref().map_or(0, |p| p.records.len()) == 0`
NoRecordLeft(p) == ~p.some \/ Len(p.v.records) = 0

\* Vec::pop on the records of the page: the last one
pop_record(p) ==
    IF NoRecordLeft(p) THEN [popped |-> None, page |-> p]
    ELSE [popped |-> Some(p.v.records[Len(p.v.records)]),
          page |-> Some([p.v EXCEPT !.records = SubSeq(p.v.records, 1, Len(p.v.records) - 1)])]

\* Iterator::next of XLogReader: with no record left the next page is read,
\* an error of the read ends the call with None; then the last record of
\* the page is popped.  read is the outcome of read_next_page, if called.
XLogReader_next(file, p) ==
    IF NoRecordLeft(p)
    THEN Let(read_next_page(file), LAMBDA r :
         IF r.ok
         THEN [f |-> r.rest, page |-> pop_record(Some(r.val)).page,
               item |-> pop_record(Some(r.val)).popped, aborted |-> FALSE,
               read |-> Ok(<<>>, <<>>)]
         ELSE [f |-> r.rest, page |-> p, item |-> None, aborted |-> r.kind = "Panic",
               read |-> Err(r.kind, r.tag, r.args)])
    ELSE [f |-> file, page |-> pop_record(p).page, item |-> pop_record(p).popped,
          aborted |-> FALSE, read |-> NoResult]

----------------------------------------------------------------------------
(* Page map: src/src/apply.rs.  The map is a function from the page        *)
(* identities stored to their 8192 bytes.  A function of PageMapping       *)
(* returns Ok(<<>>, map after) or the abort of the program.                *)

\* HashMap::insert: the page is stored under page_id, in place of the one there
PagesInsert(pgs, page_id, data) ==
    [id \in DOMAIN pgs \cup {page_id} |-> IF id = page_id THEN data ELSE pgs[id]]

\* the check that lets Btree records through to the block loop
NotAHeapChange_btree_applied(xl_rmid) == xl_rmid \notin {"Heap", "Heap2", "Btree"}

\* the first check of apply_xlog_record: neither Heap nor Heap2
NotAHeapChange(xl_rmid) == xl_rmid # "Heap" /\ xl_rmid # "Heap2"

\* the page with the zeros after the image instead of at hole_offset
ImagePageVec_hole_at_end(image) ==
    IF image.hole_length > 0
    THEN IF image.hole_offset > Len(image.bkp_image)
         THEN Panic("range end index out of range for slice")
         ELSE Ok(<<>>, image.bkp_image \o Zeros(image.hole_length))
    ELSE Ok(<<>>, image.bkp_image)

\* the page bytes when image.hole_length > 0, else the image: the bytes
\* before the hole, hole_length zeros, the bytes after; the slices abort
\* past the end of the image
ImagePageVec(image) ==
    IF image.hole_length > 0
    THEN IF image.hole_offset > Len(image.bkp_image)
         THEN Panic("range end index out of range for slice")
         ELSE Ok(<<>>, SubSeq(image.bkp_image, 1, image.hole_offset)
                       \o Zeros(image.hole_length)
                       \o SubSeq(image.bkp_image, image.hole_offset + 1, Len(image.bkp_image)))
    ELSE Ok(<<>>, image.bkp_image)

\* (image.bimg_info & BKPIMAGE_IS_COMPRESSED) != 0
ImageIsCompressed(image) == BitAnd(image.bimg_info, BKPIMAGE_IS_COMPRESSED) # 0

apply_image(pgs, block, image) ==
    IF ~block.page_id.some THEN Ok(<<>>, pgs) ELSE
    IF ImageIsCompressed(image)
    THEN Panic("not yet implemented: COMPRESSION NOT IMPLEMENTED") ELSE
    Try(ImagePageVec(image), LAMBDA rv :
    IF Len(rv.val) # BLCKSZ
    THEN Panic("unwrap() on an Err value: TryFromSliceError")
    ELSE Ok(<<>>, PagesInsert(pgs, block.page_id.v, rv.val)))

apply_heap_insert(rec, insert) == Panic("not yet implemented")

apply_operation(rec) ==
    CASE rec.operation.rm = "Heap" ->
             (CASE rec.operation.heap.op = "Insert" -> apply_heap_insert(rec, rec.operation.heap)
                [] rec.operation.heap.op = "Placeholder" -> Ok(<<>>, <<>>)
                [] OTHER -> Panic("not yet implemented"))
      [] rec.operation.rm \in {"Heap2", "Btree"} -> Panic("not yet implemented")
      [] OTHER -> Ok(<<>>, <<>>)

\* the loop over record.blocks of apply_xlog_record from block k on;
\* done counts the blocks whose image step is over, op_calls lists the
\* blocks after whose image step apply_operation was called
RECURSIVE ApplyBlocks(_, _, _, _)
ApplyBlocks(pgs, rec, k, op_calls) ==
    IF k > Len(rec.blocks)
    THEN [res |-> Ok(<<>>, <<>>), pages |-> pgs, done |-> k - 1, op_calls |-> op_calls] ELSE
    Let(IF rec.blocks[k].image.some
        THEN apply_image(pgs, rec.blocks[k], rec.blocks[k].image.v)
        ELSE Ok(<<>>, pgs), LAMBDA ri :
    IF ~ri.ok THEN [res |-> ri, pages |-> pgs, done |-> k - 1, op_calls |-> op_calls] ELSE
    Let(apply_operation(rec), LAMBDA ro :
    IF ~ro.ok
    THEN [res |-> ro, pages |-> ri.val, done |-> k, op_calls |-> Append(op_calls, k)]
    ELSE ApplyBlocks(ri.val, rec, k + 1, Append(op_calls, k))))

apply_xlog_record(pgs, rec) ==
    IF NotAHeapChange(rec.header.xl_rmid)
    THEN [res |-> Ok(<<>>, <<>>), pages |-> pgs, done |-> 0, op_calls |-> <<>>]
    ELSE ApplyBlocks(pgs, rec, 1, <<>>)

----------------------------------------------------------------------------
(* Heap page inspection: src/inspect/src/page.rs, src/inspect/src/tuple.rs, *)
(* and the earlier drafts src/crates/inspect/src/page.rs,                   *)
(* src/crates/inspect/src/tuple.rs and src/src/inspect/page_inspect.rs.     *)

PAGE_HEADER_MEM_SIZE == 24

ITEM_ID_DATA_MEM_SIZE == 4

PAGE_SIZE == 8192

\* `if pd_lower <= size { return 0; } (pd_lower - size) / 4`
LinePointerCount(pd_lower, header_size) ==
    IF pd_lower <= header_size THEN 0
    ELSE (pd_lower - header_size) \div ITEM_ID_DATA_MEM_SIZE

\* Page::num_lp
num_lp(pd_lower) == LinePointerCount(pd_lower, PAGE_HEADER_MEM_SIZE)

\* mem::size_of::<PageHeaderData>() of src/crates/inspect/src/page.rs: the
\* struct holds a u64, six u16, a u32 and the Vec pd_linp; 48 bytes with
\* 8-byte pointers, 36 or 40 with 4-byte pointers
PageHeaderDataSizes == {36, 40, 48}

max_offset_number(pd_lower, size_page_header_data) ==
    LinePointerCount(pd_lower, size_page_header_data)

\* mem::offset_of!(PageHeaderData, pd_linp) of the #[repr(C)] struct of
\* src/src/inspect/page_inspect.rs
PdLinpOffset == 24

page_get_max_offset_number(pd_lower) == LinePointerCount(pd_lower, PdLinpOffset)

\* bit j of a buffer, the least significant bit of the first byte is bit 0
BitOf(bytes, j) == (bytes[(j \div 8) + 1] \div (2 ^ (j % 8))) % 2

RECURSIVE LittleEndianBits(_, _, _)
LittleEndianBits(bytes, pos, n) ==
    IF n = 0 THEN 0
    ELSE BitOf(bytes, pos) + 2 * LittleEndianBits(bytes, pos + 1, n - 1)

\* bitter's LittleEndianReader::read_bits at bit position pos
read_bits(bytes, pos, n) ==
    IF pos + n > 8 * Len(bytes) THEN None ELSE Some(LittleEndianBits(bytes, pos, n))

parse_item_id_data_bits(bytes) ==
    IF ~read_bits(bytes, 0, 15).some \/ ~read_bits(bytes, 15, 2).some
       \/ ~read_bits(bytes, 17, 15).some
    THEN None
    ELSE Some([lp_off |-> read_bits(bytes, 0, 15).v,
               lp_flags |-> read_bits(bytes, 15, 2).v,
               lp_len |-> read_bits(bytes, 17, 15).v])

\* `take(4usize).map_opt(parse_item_id_data_bits)`
parse_line_pointer(i) ==
    Try(take(4, i), LAMBDA r :
    Let(parse_item_id_data_bits(r.val), LAMBDA o :
    IF o.some THEN Ok(r.rest, o.v) ELSE Err("Error", "NomParseError", <<>>)))

\* the loop of nom::bits::complete::take over the bytes from k on: the bits
\* of a byte are taken from its most significant bit down
RECURSIVE BitsTakeLoop(_, _, _, _, _, _)
BitsTakeLoop(i, k, last, offset, remaining, acc) ==
    IF k > last \/ k > Len(i) \/ remaining = 0 THEN [acc |-> acc, end_offset |-> 0] ELSE
    Let(IF offset = 0 THEN i[k] ELSE ((i[k] * (2 ^ offset)) % 256) \div (2 ^ offset),
        LAMBDA val :
    IF remaining < 8 - offset
    THEN [acc |-> acc + val \div (2 ^ (8 - offset - remaining)),
          end_offset |-> remaining + offset]
    ELSE BitsTakeLoop(i, k + 1, last, 0, remaining - (8 - offset),
                      acc + val * (2 ^ (remaining - (8 - offset)))))

\* nom::bits::complete::take(count)((i, bit_offset))
bits_take(count, i, bit_offset) ==
    IF Len(i) * 8 < count + bit_offset THEN NomEof ELSE
    Let((count + bit_offset) \div 8, LAMBDA cnt :
    Let(BitsTakeLoop(i, 1, cnt + 1, bit_offset, count, 0), LAMBDA r :
    [ok |-> TRUE, rest |-> SubSeq(i, cnt + 1, Len(i)), offset |-> r.end_offset,
     val |-> r.acc]))

\* parse_item_id_data of src/src/inspect/page_inspect.rs
parse_item_id_data(i) ==
    Try(bits_take(15, i, 0), LAMBDA r1 :
    Try(bits_take(2, r1.rest, r1.offset), LAMBDA r2 :
    Try(bits_take(15, r2.rest, r2.offset), LAMBDA r3 :
    Ok(r3.rest, [lp_off |-> r1.val, lp_flags |-> r2.val, lp_len |-> r3.val]))))

HEAP_NATTS_MASK == 2047

\* nom::bytes::take run through Parser::parse: a short buffer is Incomplete
bytes_take(n, i) ==
    IF Len(i) < n THEN Err("Incomplete", "Needed", <<n - Len(i)>>)
    ELSE Ok(SubSeq(i, n + 1, Len(i)), SubSeq(i, 1, n))

\* BitSet::from_bytes: bit 0 of the set is the most significant bit of the first byte
BitSet_from_bytes(bytes) ==
    {j \in 0..(8 * Len(bytes) - 1) : (bytes[(j \div 8) + 1] \div (2 ^ (7 - (j % 8)))) % 2 = 1}

parse_ctid(i) ==
    Try(le_u32(i), LAMBDA r1 :
    Try(le_u16(r1.rest), LAMBDA r2 :
    Ok(r2.rest, [ip_blkid |-> r1.val, ip_posid |-> r2.val])))

\* `natts.div_ceil(8)`
NullBitmapLen(natts) == (natts + 7) \div 8

parse_heap_tuple_header(i) ==
    Try(le_u32(i), LAMBDA r1 :
    Try(le_u32(r1.rest), LAMBDA r2 :
    Try(le_u32(r2.rest), LAMBDA r3 :
    Try(parse_ctid(r3.rest), LAMBDA r4 :
    Try(le_u16(r4.rest), LAMBDA r5 :
    Try(le_u16(r5.rest), LAMBDA r6 :
    Try(le_u8(r6.rest), LAMBDA r7 :
    LET natts == BitAnd(r5.val, HEAP_NATTS_MASK) IN
    Try(bytes_take(NullBitmapLen(natts), r7.rest), LAMBDA r8 :
    Ok(r8.rest, [xmin |-> r1.val,
                 xmax |-> r2.val,
                 t_cid |-> r3.val,
                 t_ctid |-> r4.val,
                 t_infomask2 |-> r5.val,
                 t_infomask |-> r6.val,
                 t_hoff |-> r7.val,
                 t_bits |-> BitSet_from_bytes(r8.val)])))))))))

\* parse_item_pointer_data of src/crates/inspect/src/tuple.rs: (le_u32, le_u32)
parse_item_pointer_data(i) ==
    Try(le_u32(i), LAMBDA r1 :
    Try(le_u32(r1.rest), LAMBDA r2 :
    Ok(r2.rest, [ip_blkid |-> r1.val, ip_posid |-> r2.val])))

\* parse_bitmaps of src/crates/inspect/src/tuple.rs on the bytes after
\* t_hoff: `let bitmap_len = ((natts + 7) / 8) * 8;`
parse_bitmaps(i, t_infomask2) ==
    LET natts == BitAnd(t_infomask2, HEAP_NATTS_MASK)
        bitmap_len == ((natts + 7) \div 8) * 8
    IN Try(bytes_take(bitmap_len, i), LAMBDA r :
       Ok(r.rest, [t_infomask2 |-> t_infomask2, t_bits |-> r.val]))

parse_pagesize(i) == Try(le_u8(i), LAMBDA r : Ok(r.rest, r.val * 256))

parse_page_header(i) ==
    Try(le_u32(i), LAMBDA r0 :
    Try(le_u32(r0.rest), LAMBDA r1 :
    Try(le_u16(r1.rest), LAMBDA r2 :
    Try(le_u16(r2.rest), LAMBDA r3 :
    Try(le_u16(r3.rest), LAMBDA r4 :
    Try(le_u16(r4.rest), LAMBDA r5 :
    Try(le_u16(r5.rest), LAMBDA r6 :
    Try(le_u8(r6.rest), LAMBDA r7 :
    Try(parse_pagesize(r7.rest), LAMBDA r8 :
    Try(le_u32(r8.rest), LAMBDA r9 :
    Ok(r9.rest, [pd_lsn |-> <<r0.val, r1.val>>,
                 pd_checksum |-> r2.val,
                 pd_flags |-> r3.val,
                 pd_lower |-> r4.val,
                 pd_upper |-> r5.val,
                 pd_special |-> r6.val,
                 pd_version |-> r7.val,
                 pd_pagesize |-> r8.val,
                 pd_prune_xid |-> r9.val])))))))))))

\* `input.take_split(PAGE_SIZE)` is split_at: it aborts on a shorter buffer
parse_page(i) ==
    IF Len(i) < PAGE_SIZE THEN Panic("mid > len") ELSE
    Try(parse_page_header(SubSeq(i, 1, PAGE_SIZE)), LAMBDA rh :
    Ok(SubSeq(i, PAGE_SIZE + 1, Len(i)), [header |-> rh.val, data |-> SubSeq(i, 1, PAGE_SIZE)]))

\* `if offset > max_offset`
OffsetIsInvalid(offset, max_offset) == offset > max_offset

\* Page::get_line_pointer
get_line_pointer(pg, offset) ==
    Let(num_lp(pg.header.pd_lower), LAMBDA max_offset :
    IF OffsetIsInvalid(offset, max_offset)
    THEN Err("PageError", "InvalidOffset", <<offset, max_offset>>) ELSE
    Let(PAGE_HEADER_MEM_SIZE + offset * 4, LAMBDA start_lp :
    IF start_lp + 4 > Len(pg.data) THEN Panic("range end index out of range for slice") ELSE
    Let(parse_line_pointer(SubSeq(pg.data, start_lp + 1, start_lp + 4)), LAMBDA r :
    IF r.ok THEN Ok(<<>>, r.val) ELSE Err("PageError", "LinePointerParseError", <<>>))))

\* Page::get_tuple
get_tuple(pg, offset) ==
    Try(get_line_pointer(pg, offset), LAMBDA rl :
    IF rl.val.lp_off > Len(pg.data) THEN Panic("range start index out of range for slice") ELSE
    Let(parse_heap_tuple_header(SubSeq(pg.data, rl.val.lp_off + 1, Len(pg.data))), LAMBDA r :
    IF r.ok THEN Ok(<<>>, r.val) ELSE Err("PageError", "LinePointerParseError", <<>>)))

----------------------------------------------------------------------------
(* Input buffers.  A record body is written from a description of what it  *)
(* holds: the data block references, the main data and the bytes after     *)
(* it, laid out as XLogRecordAssemble of PostgreSQL lays them out: the     *)
(* block headers, the main-data header, then the payloads in header order  *)
(* (image bytes before data bytes) and the main data last.                 *)

MaxDataLen == 2

MaxFollow == 2

MaxPad == 9

\* the relation locator and block number of the buffers of the tests
Locator == <<127, 6, 0, 0, 176, 50, 0, 0, 22, 64, 0, 0>>

\* the locator of a second relation of the same tablespace and database
OtherLocator == <<127, 6, 0, 0, 176, 50, 0, 0, 23, 64, 0, 0>>

BlockNo == <<5, 0, 0, 0>>

ImageBytes == <<81, 82>>

MainData == <<9, 0, 8>>

\* n payload bytes of block `id`, the first one is `first + id`
Payload(n, first, id) == [k \in 1..n |-> IF k = 1 THEN first + id ELSE 16 * (id % 8) + k]

B(id) == [id |-> id, same_rel |-> FALSE, image |-> FALSE, other_rel |-> FALSE]

BS(id) == [id |-> id, same_rel |-> TRUE, image |-> FALSE, other_rel |-> FALSE]

BI(id) == [id |-> id, same_rel |-> FALSE, image |-> TRUE, other_rel |-> FALSE]

\* a block of a second relation
BO(id) == [id |-> id, same_rel |-> FALSE, image |-> FALSE, other_rel |-> TRUE]

Shapes ==
    { <<>>, <<B(0)>>, <<BI(0)>>, <<B(31)>>, <<B(32)>>, <<B(33)>>, <<BS(0)>>,
      <<B(0), BS(1)>>, <<B(0), B(2)>>, <<BI(0), BS(1)>>, <<B(1), B(0)>>,
      <<B(0), B(0)>>, <<B(0), B(32)>>, <<B(0), BS(1), BS(2)>>,
      <<B(0), BO(1), BS(2)>> }

MainShapes ==
    { [present |-> FALSE, long |-> FALSE, data |-> <<>>],
      [present |-> TRUE, long |-> FALSE, data |-> <<>>],
      [present |-> TRUE, long |-> FALSE, data |-> MainData],
      [present |-> TRUE, long |-> TRUE, data |-> MainData] }

\* the record extensions that stand between the block headers and the
\* main-data header: replication origin 1, top-level xid 0x2e9
XLR_BLOCK_ID_ORIGIN == 253

XLR_BLOCK_ID_TOPLEVEL_XID == 252

OriginExt == <<XLR_BLOCK_ID_ORIGIN>> \o LE16(1)

ToplevelXidExt == <<XLR_BLOCK_ID_TOPLEVEL_XID>> \o LE32(745)

BodyDescs ==
    [shape : Shapes, n : 0..MaxDataLen, first : {1, 64}, main : MainShapes,
     extra : {<<>>, <<0>>, <<7>>}, ext : {<<>>}]
    \cup
    [shape : {<<>>, <<B(0)>>}, n : {0, 1}, first : {1}, main : MainShapes,
     extra : {<<>>}, ext : {OriginExt, ToplevelXidExt, OriginExt \o ToplevelXidExt}]

BlockData(d, k) == Payload(d.n, d.first, d.shape[k].id)

BlockImage(d, k) == IF d.shape[k].image THEN ImageBytes ELSE <<>>

\* uncompressed image with a hole at offset 1, to be applied
EncImageHeader(bytes) == LE16(Len(bytes)) \o LE16(1) \o <<BKPIMAGE_APPLY + BKPIMAGE_HAS_HOLE>>

EncBlockHeader(d, k) ==
    LET b == d.shape[k] IN
    <<b.id,
      (IF b.image THEN BKPBLOCK_HAS_IMAGE ELSE 0)
      + (IF d.n > 0 THEN BKPBLOCK_HAS_DATA ELSE 0)
      + (IF b.same_rel THEN BKPBLOCK_SAME_REL ELSE 0)>>
    \o LE16(d.n)
    \o (IF b.image THEN EncImageHeader(ImageBytes) ELSE <<>>)
    \o (IF b.same_rel THEN <<>> ELSE IF b.other_rel THEN OtherLocator ELSE Locator)
    \o BlockNo

EncMainHeader(m) ==
    IF ~m.present THEN <<>>
    ELSE IF m.long THEN <<XLR_BLOCK_ID_DATA_LONG>> \o LE32(Len(m.data))
    ELSE <<XLR_BLOCK_ID_DATA_SHORT, Len(m.data)>>

RECURSIVE EncBlockHeaders(_, _)
EncBlockHeaders(d, k) ==
    IF k > Len(d.shape) THEN <<>>
    ELSE EncBlockHeader(d, k) \o EncBlockHeaders(d, k + 1)

RECURSIVE EncPayloads(_, _)
EncPayloads(d, k) ==
    IF k > Len(d.shape) THEN <<>>
    ELSE BlockImage(d, k) \o BlockData(d, k) \o EncPayloads(d, k + 1)

EncBody(d) ==
    EncBlockHeaders(d, 1) \o d.ext \o EncMainHeader(d.main) \o EncPayloads(d, 1)
    \o d.main.data \o d.extra

\* a body as the format defines it: ids below XLR_MAX_BLOCK_ID in strictly
\* increasing order, the first block with its own locator, a main-data
\* header, nothing after the main data
RECURSIVE IdsIncrease(_, _)
IdsIncrease(shape, k) ==
    k >= Len(shape) \/ (shape[k].id < shape[k + 1].id /\ IdsIncrease(shape, k + 1))

WellFormedBody(d) ==
    /\ \A k \in 1..Len(d.shape) : d.shape[k].id < XLR_MAX_BLOCK_ID
    /\ IdsIncrease(d.shape, 1)
    /\ (d.shape # <<>> => ~d.shape[1].same_rel)
    /\ d.main.present
    /\ d.extra = <<>>

\* every body with what it was written from
BodyTable == {<<EncBody(d), d>> : d \in BodyDescs}

BodyInputs == {p[1] : p \in BodyTable}

\* block image headers: bimg_len, hole_offset, bimg_info and, where the
\* format has one, hole_length
ImageLens == {0, 1, BLCKSZ - 1, BLCKSZ, BLCKSZ + 1, 9000}

HoleOffsets == {0, 1, BLCKSZ - 1}

HoleLengths == {<<>>, LE16(0), LE16(1)}

ImageInputs ==
    {LE16(bl) \o LE16(ho) \o <<info>> \o hl :
        bl \in ImageLens, ho \in HoleOffsets, info \in 0..7, hl \in HoleLengths}
    \cup {<<>>, <<2>>, <<2, 0, 1>>, <<2, 0, 1, 0>>}

\* padding buffers: every buffer over {0, 5} of up to three bytes, and the
\* longer ones that are all zero, all non-zero, or zero but for one byte
RECURSIVE SeqsOver(_, _)
SeqsOver(S, n) ==
    IF n = 0 THEN {<<>>}
    ELSE LET shorter == SeqsOver(S, n - 1) IN
         shorter \cup {Append(q, x) : q \in {r \in shorter : Len(r) = n - 1}, x \in S}

OneNonZero(n, p) == [k \in 1..n |-> IF k = p THEN 5 ELSE 0]

PaddingInputs ==
    SeqsOver({0, 5}, 3)
    \cup {Zeros(n) : n \in 0..MaxPad}
    \cup {[k \in 1..n |-> 5] : n \in 1..MaxPad}
    \cup {OneNonZero(n, p) : n \in 1..MaxPad, p \in 1..MaxPad}

\* records: a 24-byte header, the body, the alignment bytes and the first
\* bytes of whatever follows in the buffer
Xid == <<232, 2, 0, 0>>

Prev == <<112, 204, 63, 1, 0, 0, 0, 0>>

Crc == <<37, 203, 91, 64>>

RmgrHeap == 10

Follow(m) == [k \in 1..m |-> 50]

EncRecordHeader(tot_len, info, rmid, pad) ==
    LE32(tot_len) \o Xid \o Prev \o <<info, rmid>> \o pad \o Crc

\* zeros: the count of zero bytes after the body; follow: the count of bytes after them
EncRecord(r) ==
    LET body == EncBody(r.body) IN
    EncRecordHeader(XLOG_RECORD_HEADER_SIZE + Len(body), r.info, r.rmid, r.pad)
    \o body \o Zeros(r.zeros) \o Follow(r.follow)

RecordBodyDescs ==
    {d \in BodyDescs : /\ d.shape \in {<<>>, <<B(0)>>, <<BI(0), BS(1)>>, <<B(1), B(0)>>}
                       /\ d.extra = <<>>
                       /\ d.main.data = (IF d.main.present THEN MainData ELSE <<>>)
                       /\ ~d.main.long}

RecordDescs ==
    [body : RecordBodyDescs, info : {0}, rmid : {RmgrHeap}, pad : {<<0, 0>>},
     zeros : 0..7, follow : 0..MaxFollow]
    \cup
    [body : {d \in RecordBodyDescs : d.shape = <<B(0)>> /\ d.n = MaxDataLen},
     info : {16, 32, 48, 64, 80, 3}, rmid : {8, RmgrHeap, 22, 255},
     pad : {<<0, 0>>, <<0, 5>>, <<5, 5>>}, zeros : {0}, follow : {0}]

\* headers whose xl_tot_len is not the length of what follows, and buffers
\* that end before the record does
StrayHeaders ==
    {EncRecordHeader(tot_len, 0, RmgrHeap, <<0, 0>>) \o tail :
        tot_len \in {0, 1, 23, 24, 25, 32}, tail \in {<<>>, <<255>>, Zeros(8)}}

Truncations(buf, S) == {SubSeq(buf, 1, n) : n \in {m \in S : m <= Len(buf)}}

RecordTable == {<<EncRecord(r), r>> : r \in RecordDescs}

RecordInputs ==
    {p[1] : p \in RecordTable}
    \cup StrayHeaders
    \cup UNION {Truncations(h, 0..Len(h)) : h \in {EncRecordHeader(0, 0, RmgrHeap, <<0, 0>>),
                                                   EncRecordHeader(27, 0, RmgrHeap, <<0, 0>>)
                                                   \o <<255, 1, 9>>}}

\* main-data headers: an id, the length as the format writes it (one byte
\* under the short id, four under the long one) and the first bytes of what
\* follows the header
MainLens == {0, 3, 255, 300, 65539}

EncMainHeaderOf(long, len) ==
    IF long THEN <<XLR_BLOCK_ID_DATA_LONG>> \o LE32(len)
    ELSE <<XLR_BLOCK_ID_DATA_SHORT, len>>

MainHeaderDescs ==
    {m \in [long : BOOLEAN, len : MainLens, tail : {<<>>, MainData, <<9, 0, 8, 1, 2>>}] :
        m.long \/ m.len <= 255}

MainHeaderTable == {<<EncMainHeaderOf(m.long, m.len) \o m.tail, m>> : m \in MainHeaderDescs}

MainHeaderInputs ==
    {p[1] : p \in MainHeaderTable}
    \cup {<<>>, <<XLR_BLOCK_ID_DATA_SHORT>>, <<XLR_BLOCK_ID_DATA_LONG>>,
          <<XLR_BLOCK_ID_DATA_LONG, 3>>, <<XLR_BLOCK_ID_ORIGIN, 1, 0>>, <<0, 32, 1, 0>>}

\* page headers
PageMagics == {XLP_MAGIC, XLP_MAGIC - 1, 0}

PageInfos == {0, 1, 2, 4, 5, 7, 8, 15, 16, 18, 32768, 65520}

EncPageHeader(magic, info, longpad) ==
    LE16(magic) \o LE16(info) \o <<1, 0, 0, 0>> \o <<0, 0, 0, 1, 0, 0, 0, 0>> \o LE32(0)
    \o longpad \o <<171, 205, 0, 0, 0, 0, 0, 1>> \o LE32(16777216) \o LE32(BLCKSZ)
    \o <<50, 0>>

PageInputs ==
    UNION {Truncations(EncPageHeader(magic, info, longpad), {0, 2, 19, 20, 23, 24, 39, 40, 42}) :
            magic \in PageMagics, info \in PageInfos,
            longpad \in {Zeros(4), <<0, 0, 0, 1>>, <<1, 1, 1, 1>>}}

----------------------------------------------------------------------------
(* Segment files.  A log is a sequence of records, each with at most one   *)
(* data block reference, a short main-data header and its main data, and   *)
(* aligned to 8 bytes; the entry ZeroFill stands for zero bytes up to the  *)
(* end of the page.  The file is the log cut into 8192-byte pages, the     *)
(* first with a long header, the others with a short one that holds in     *)
(* xlp_rem_len the bytes left of the record that crosses into the page.    *)

\* a record with n bytes of main data
R(n) == [main |-> n, block |-> 0]

\* a record with a data block reference of m bytes of data and n bytes of main data
RB(n, m) == [main |-> n, block |-> m]

ZeroFill == [main |-> 0, block |-> 0 - 1]

Aligned(n) == ((n + 7) \div 8) * 8

\* the data of record k: n non-zero bytes
LogData(k, n) == [j \in 1..n |-> ((16 * k + j) % 251) + 1]

\* record k of a log, its xid is k
LogRecord(k, e) ==
    LE32(XLOG_RECORD_HEADER_SIZE + (IF e.block > 0 THEN 20 + e.block ELSE 0) + 2 + e.main)
    \o LE32(k) \o Prev \o <<0, RmgrHeap, 0, 0>> \o Crc
    \o (IF e.block > 0
        THEN <<0, BKPBLOCK_HAS_DATA>> \o LE16(e.block) \o Locator \o BlockNo
        ELSE <<>>)
    \o <<XLR_BLOCK_ID_DATA_SHORT, e.main>>
    \o LogData(k + 1, e.block) \o LogData(k, e.main)

\* where page p starts in the log, the page headers left out
PageStart(p) ==
    IF p = 1 THEN 0
    ELSE (ReaderBufferSize - LongPageHeaderSize) + (p - 2) * (ReaderBufferSize - ShortPageHeaderSize)

PageOf(off) == CHOOSE p \in 1..4 : PageStart(p) <= off /\ off < PageStart(p + 1)

\* the bytes of the log and, per record, where it starts and ends
RECURSIVE LogStream(_, _, _)
LogStream(log, k, acc) ==
    IF k > Len(log) THEN acc
    ELSE IF log[k] = ZeroFill
    THEN LogStream(log, k + 1,
             [acc EXCEPT !.bytes = @ \o Zeros(PageStart(PageOf(Len(@)) + 1) - Len(@))])
    ELSE LogStream(log, k + 1,
             [bytes |-> acc.bytes \o LogRecord(k, log[k])
                        \o Zeros(Aligned(Len(LogRecord(k, log[k]))) - Len(LogRecord(k, log[k]))),
              spans |-> acc.spans \cup {[xid |-> k, start |-> Len(acc.bytes),
                                         end |-> Len(acc.bytes) + Len(LogRecord(k, log[k]))]}])

StreamOf(log) == LogStream(log, 1, [bytes |-> <<>>, spans |-> {}])

\* the bytes left, at the start of page p, of the record that crosses into it
RemLen(spans, p) ==
    IF \E s \in spans : s.start < PageStart(p) /\ PageStart(p) < s.end
    THEN (CHOOSE s \in spans : s.start < PageStart(p) /\ PageStart(p) < s.end).end - PageStart(p)
    ELSE 0

\* the header of page p: XLP_FIRST_IS_CONTRECORD when a record crosses into it
EncLogPageHeader(p, magic, rem_len, longpad) ==
    LE16(magic)
    \o LE16((IF p = 1 THEN XLP_LONG_HEADER ELSE 0) + (IF rem_len > 0 THEN 1 ELSE 0))
    \o LE32(1) \o <<0, 0, 0, 1, 0, 0, 0, 0>> \o LE32(rem_len)
    \o (IF p = 1
        THEN longpad \o <<171, 205, 0, 0, 0, 0, 0, 1>> \o LE32(16777216) \o LE32(BLCKSZ)
        ELSE Zeros(4))

NumPages(len) == IF len = 0 THEN 1 ELSE PageOf(len - 1)

EncLogPage(stream, p, magic, longpad) ==
    EncLogPageHeader(p, magic, RemLen(stream.spans, p), longpad)
    \o SubSeq(stream.bytes \o Zeros(PageStart(p + 1) - Len(stream.bytes)),
              PageStart(p) + 1, PageStart(p + 1))

RECURSIVE EncLogPages(_, _, _)
EncLogPages(d, stream, p) ==
    IF p > NumPages(Len(stream.bytes)) THEN <<>>
    ELSE EncLogPage(stream, p, IF d.bad_magic = p THEN XLP_MAGIC - 1 ELSE XLP_MAGIC,
                    IF d.bad_pad THEN <<1, 1, 1, 1>> ELSE Zeros(4))
         \o EncLogPages(d, stream, p + 1)

\* tail: the bytes of the file after its last whole page
EncFile(d) == EncLogPages(d, StreamOf(d.log), 1) \o Zeros(d.tail)

\* a record of 8061 bytes: with its alignment it leaves 88 bytes of the first page
Filler == <<RB(3, 8012)>>

Logs ==
    { <<>>, <<R(3)>>, <<R(3), R(10), R(1)>>, <<R(3), R(6), R(1)>>,
      <<R(3), ZeroFill, R(10), R(1)>>,
      <<R(1), R(2), R(3), R(4), R(5)>>,
      <<R(9), R(8), R(7), R(5), R(4), R(3), R(2), R(1)>>,
      <<R(3), R(10), ZeroFill, R(1), R(2), R(3)>>,
      <<RB(3, 1), R(2)>>, <<R(2), R(1)>>, <<R(4), R(3), R(2), R(1)>>,
      Filler \o <<R(59), R(3), R(10)>>, Filler \o <<R(100), R(3)>>,
      Filler \o <<R(50), R(3)>> }

FileDescs ==
    [log : Logs, bad_magic : {0}, bad_pad : {FALSE}, tail : {0, 100}]
    \cup [log : {<<R(3), R(10), R(1)>>, <<R(3), ZeroFill, R(10), R(1)>>}, bad_magic : {1, 2},
          bad_pad : {FALSE}, tail : {0}]
    \cup [log : {<<R(3), R(10), R(1)>>}, bad_magic : {0}, bad_pad : {TRUE}, tail : {0}]

FileTable == {<<EncFile(d), d>> : d \in FileDescs}

\* two one-page segments in one file: the second page has a long header too
TwoSegments ==
    {EncFile([log |-> <<R(3), R(10), R(1)>>, bad_magic |-> m, bad_pad |-> FALSE, tail |-> 0])
     \o EncFile([log |-> log, bad_magic |-> 0, bad_pad |-> FALSE, tail |-> 0]) :
        m \in {0, 1}, log \in {<<R(2), R(1)>>, <<>>}}

Files == {p[1] : p \in FileTable} \cup {<<>>, Zeros(100)} \cup TwoSegments

----------------------------------------------------------------------------
(* Decoded records for the page map.  The records are those the decoder of *)
(* src/src/xlog/record.rs returns: the operation goes with the resource    *)
(* manager, an uncompressed image has hole_length = 8192 - bimg_len.       *)

\* an image of n non-zero bytes
ImageData(n, seed) == [k \in 1..n |-> ((16 * seed + k) % 251) + 1]

Image(bimg_info, bimg_len, hole_offset, hole_length, seed) ==
    [apply_image |-> BitAnd(bimg_info, BKPIMAGE_APPLY) # 0,
     hole_offset |-> hole_offset,
     hole_length |-> hole_length,
     bimg_len |-> bimg_len,
     bimg_info |-> bimg_info,
     bkp_image |-> ImageData(bimg_len, seed)]

HoleImageLen == 5

HoleImage(bimg_info, seed) == Image(bimg_info, HoleImageLen, 3, BLCKSZ - HoleImageLen, seed)

FullImage(bimg_info) == Image(bimg_info, BLCKSZ, 0, 0, 4)

ApplyImages ==
    \* uncompressed, with a hole after the third byte
    {HoleImage(BKPIMAGE_HAS_HOLE, 1), HoleImage(BKPIMAGE_HAS_HOLE + BKPIMAGE_APPLY, 1),
     HoleImage(BKPIMAGE_HAS_HOLE + BKPIMAGE_APPLY, 2),
    \* uncompressed, the whole page
     FullImage(0), FullImage(BKPIMAGE_APPLY),
    \* compressed, with and without a hole
     Image(BKPIMAGE_IS_COMPRESSED + BKPIMAGE_APPLY, HoleImageLen, 0, 0, 5),
     Image(BKPIMAGE_IS_COMPRESSED + BKPIMAGE_HAS_HOLE + BKPIMAGE_APPLY, HoleImageLen, 3, 2, 5)}

PageId(blockno) ==
    [locator |-> parse_relfilenode(Locator).val, blockno |-> blockno, fork |-> 0]

\* a data block reference as parse_blocks returns it
ApplyBlock(blk_id, blockno, image) ==
    [blk_id |-> blk_id,
     page_id |-> Some(PageId(blockno)),
     flags |-> IF image.some THEN BKPBLOCK_HAS_IMAGE ELSE 0,
     image |-> image,
     has_data |-> FALSE,
     data_len |-> 0,
     data |-> <<>>]

ApplyBlockSeqs ==
    {<<>>, <<ApplyBlock(0, 5, None)>>}
    \cup {<<ApplyBlock(0, 5, Some(img))>> : img \in ApplyImages}
    \cup {<<ApplyBlock(0, 5, Some(img)), ApplyBlock(1, 6, Some(img))>> :
            img \in {HoleImage(BKPIMAGE_HAS_HOLE + BKPIMAGE_APPLY, 1), FullImage(BKPIMAGE_APPLY)}}
    \cup {<<ApplyBlock(0, 5, b),
            ApplyBlock(1, 6, Some(Image(BKPIMAGE_IS_COMPRESSED + BKPIMAGE_APPLY, HoleImageLen, 0, 0, 5)))>> :
            b \in {None, Some(HoleImage(BKPIMAGE_HAS_HOLE + BKPIMAGE_APPLY, 1))}}

ApplyOperations ==
    {<<"Heap", [rm |-> "Heap", heap |-> [op |-> "Placeholder"]]>>,
     <<"Heap", [rm |-> "Heap", heap |-> [op |-> "Insert"]]>>,
     <<"Heap2", [rm |-> "Heap2"]>>,
     <<"Btree", [rm |-> "Btree"]>>,
     <<"Xlog", [rm |-> "Xlog"]>>}

ApplyRecords ==
    {[header |-> [xl_rmid |-> o[1]], blocks |-> bs, operation |-> o[2]] :
        o \in ApplyOperations, bs \in ApplyBlockSeqs}

----------------------------------------------------------------------------
(* Heap pages, line pointers and tuple headers for the inspection code *)

PdLowers == (0..200) \cup (8190..8194) \cup {32767, 32768} \cup (65532..65535)

LinePointerBytes == {0, 1, 56, 127, 128, 159, 255}

LinePointerInputs ==
    {<<b0, b1, b2, b3>> : b0 \in LinePointerBytes, b1 \in LinePointerBytes,
                          b2 \in LinePointerBytes, b3 \in LinePointerBytes}
    \cup {<<>>, <<128>>, <<128, 159, 56>>, <<128, 159, 56, 0, 7>>,
          <<255, 255, 255, 255, 1, 2, 3, 4>>}

\* a line pointer as PostgreSQL writes it: lp_off in bits 0-14, lp_flags in
\* bits 15-16, lp_len in bits 17-31 of the little-endian word
EncLinePointer(lp_off, lp_flags, lp_len) ==
    <<lp_off % 256,
      (lp_off \div 256) + 128 * (lp_flags % 2),
      (lp_flags \div 2) + 2 * (lp_len % 128),
      lp_len \div 128>>

\* n non-zero bytes
Trailing(n) == [k \in 1..n |-> 1 + (k % 100)]

\* the 23 bytes of fixed fields of a tuple header: xmin 767, xmax 0, cid 0,
\* ctid (0, posid), t_infomask2, t_infomask 0x0901, t_hoff 24
EncTupleFixed(posid, infomask2) ==
    LE32(767) \o LE32(0) \o LE32(0) \o LE32(0) \o LE16(posid) \o LE16(infomask2)
    \o LE16(2305) \o <<24>>

Infomask2s == {0, 1, 2, 7, 8, 9, 16, 17, 2047, 2048, 32770, 57352}

TrailingLens == (0..4) \cup {256, 300}

TupleHeaderInputs ==
    {EncTupleFixed(1, m) \o Trailing(n) : m \in Infomask2s, n \in TrailingLens}
    \cup Truncations(EncTupleFixed(1, 2), {0, 4, 12, 18, 22})

ItemPointerInputs == {Trailing(n) : n \in 0..10}

BitmapInputs == {Trailing(n) : n \in (0..9) \cup {16, 17, 24, 256, 2048, 2050}}

\* tuple k of a page: 32 bytes at 8192 - 32 * k, two attributes, the second null
TupleOffset(k) == PAGE_SIZE - 32 * k

EncTuple(k) == EncTupleFixed(k, 2) \o <<1>> \o LE32(k) \o Zeros(4)

RECURSIVE EncTuples(_)
EncTuples(n) == IF n = 0 THEN <<>> ELSE EncTuple(n) \o EncTuples(n - 1)

RECURSIVE EncLinePointers(_, _)
EncLinePointers(k, n) ==
    IF k > n THEN <<>>
    ELSE EncLinePointer(TupleOffset(k), 1, 28) \o EncLinePointers(k + 1, n)

EncHeapPageHeader(pd_lower, pd_upper) ==
    <<168, 46, 89, 1, 0, 0, 0, 0>> \o LE16(24867) \o LE16(0) \o LE16(pd_lower)
    \o LE16(pd_upper) \o LE16(PAGE_SIZE) \o <<4, 32>> \o LE32(0)

\* a page of n tuples; pd_lower is 24 + 4 * n + slack; stale: the four bytes
\* after the last line pointer hold the line pointer of a removed tuple
EncHeapPage(d) ==
    LET lps == EncLinePointers(1, d.n)
                \o (IF d.stale THEN EncLinePointer(TupleOffset(d.n + 1), 1, 28) ELSE <<>>)
        used == PAGE_HEADER_MEM_SIZE + Len(lps)
    IN EncHeapPageHeader(IF d.lower >= 0 THEN d.lower ELSE PAGE_HEADER_MEM_SIZE + 4 * d.n + d.slack,
                         TupleOffset(d.n))
       \o lps \o Zeros(TupleOffset(d.n + 1) - used) \o EncTuple(d.n + 1) \o EncTuples(d.n)

\* lower: the pd_lower written when it is not the one of the line pointers
HeapPageDescs ==
    [n : 0..3, slack : {0, 2}, stale : BOOLEAN, lower : {0 - 1}]
    \cup [n : {2}, slack : {0}, stale : {FALSE}, lower : {0, 20, 24, PAGE_SIZE, 65535}]

HeapPageTable == {<<EncHeapPage(d), d>> : d \in HeapPageDescs}

HeapPages == {p[1] : p \in HeapPageTable}

LinePointerIndexes == (0..5) \cup {2041, 2042, 2043}

----------------------------------------------------------------------------
(* The driver *)

Functions ==
    {"parse_block_image", "parse_blocks", "xlog_block_parse_blocks",
     "parse_xlog_record_header", "parse_xlog_record", "xlog_record_parse_xlog_record",
     "consume_padding", "xlog_record_consume_padding",
     "parse_xlog_page_header", "xlog_page_header_parse_xlog_page_header",
     "xlog_block_parse_main_data_block_header",
     "xlog_record_parse_main_data_block_header"}

InputsOf(name) ==
    CASE name = "parse_block_image" -> ImageInputs
      [] name \in {"parse_blocks", "xlog_block_parse_blocks"} -> BodyInputs
      [] name \in {"parse_xlog_record_header", "parse_xlog_record",
                "xlog_record_parse_xlog_record"} -> RecordInputs
      [] name \in {"consume_padding", "xlog_record_consume_padding"} -> PaddingInputs
      [] name \in {"xlog_block_parse_main_data_block_header",
                "xlog_record_parse_main_data_block_header"} -> MainHeaderInputs
      [] OTHER -> PageInputs

ArgsOf(name) ==
    IF name \in {"consume_padding", "xlog_record_consume_padding"} THEN 0..MaxPad ELSE {0}

\* the reader and the page map before any file is opened and any record applied
ClosedFile == [data |-> <<>>, pos |-> 0]

NoPages == [id \in {} |-> <<>>]

NoRecord == [header |-> [xl_rmid |-> "None"], blocks |-> <<>>, operation |-> [rm |-> "None"]]

Init ==
    /\ fn \in Functions
    /\ input \in InputsOf(fn)
    /\ arg \in ArgsOf(fn)
    /\ overflow_checks \in BOOLEAN
    /\ pc = "call"
    /\ res = NoResult
    /\ f = ClosedFile
    /\ page = None
    /\ yielded = <<>>
    /\ pages = NoPages
    /\ record = NoRecord

ParseBlockImage ==
    /\ pc = "call"
    /\ fn = "parse_block_image"
    /\ res' = parse_block_image(input)
    /\ pc' = "return"
    /\ UNCHANGED <<fn, input, arg, overflow_checks, f, page, yielded, pages, record>>

ParseBlocks ==
    /\ pc = "call"
    /\ fn = "parse_blocks"
    /\ res' = parse_blocks(input)
    /\ pc' = "return"
    /\ UNCHANGED <<fn, input, arg, overflow_checks, f, page, yielded, pages, record>>

XlogBlockParseBlocks ==
    /\ pc = "call"
    /\ fn = "xlog_block_parse_blocks"
    /\ res' = xlog_block_parse_blocks(input)
    /\ pc' = "return"
    /\ UNCHANGED <<fn, input, arg, overflow_checks, f, page, yielded, pages, record>>

ParseXlogRecordHeader ==
    /\ pc = "call"
    /\ fn = "parse_xlog_record_header"
    /\ res' = parse_xlog_record_header(input)
    /\ pc' = "return"
    /\ UNCHANGED <<fn, input, arg, overflow_checks, f, page, yielded, pages, record>>

ParseXlogRecord ==
    /\ pc = "call"
    /\ fn = "parse_xlog_record"
    /\ res' = parse_xlog_record(input)
    /\ pc' = "return"
    /\ UNCHANGED <<fn, input, arg, overflow_checks, f, page, yielded, pages, record>>

XlogRecordParseXlogRecord ==
    /\ pc = "call"
    /\ fn = "xlog_record_parse_xlog_record"
    /\ res' = xlog_record_parse_xlog_record(input)
    /\ pc' = "return"
    /\ UNCHANGED <<fn, input, arg, overflow_checks, f, page, yielded, pages, record>>

ConsumePadding ==
    /\ pc = "call"
    /\ fn = "consume_padding"
    /\ res' = consume_padding(input, arg)
    /\ pc' = "return"
    /\ UNCHANGED <<fn, input, arg, overflow_checks, f, page, yielded, pages, record>>

XlogRecordConsumePadding ==
    /\ pc = "call"
    /\ fn = "xlog_record_consume_padding"
    /\ res' = xlog_record_consume_padding(input, arg)
    /\ pc' = "return"
    /\ UNCHANGED <<fn, input, arg, overflow_checks, f, page, yielded, pages, record>>

ParseXlogPageHeader ==
    /\ pc = "call"
    /\ fn = "parse_xlog_page_header"
    /\ res' = parse_xlog_page_header(input)
    /\ pc' = "return"
    /\ UNCHANGED <<fn, input, arg, overflow_checks, f, page, yielded, pages, record>>

XlogPageHeaderParseXlogPageHeader ==
    /\ pc = "call"
    /\ fn = "xlog_page_header_parse_xlog_page_header"
    /\ res' = xlog_page_header_parse_xlog_page_header(input)
    /\ pc' = "return"
    /\ UNCHANGED <<fn, input, arg, overflow_checks, f, page, yielded, pages, record>>

XlogBlockParseMainDataBlockHeader ==
    /\ pc = "call"
    /\ fn = "xlog_block_parse_main_data_block_header"
    /\ res' = xlog_block_parse_main_data_block_header(input)
    /\ pc' = "return"
    /\ UNCHANGED <<fn, input, arg, overflow_checks, f, page, yielded, pages, record>>

XlogRecordParseMainDataBlockHeader ==
    /\ pc = "call"
    /\ fn = "xlog_record_parse_main_data_block_header"
    /\ res' = xlog_record_parse_main_data_block_header(input)
    /\ pc' = "return"
    /\ UNCHANGED <<fn, input, arg, overflow_checks, f, page, yielded, pages, record>>

Next ==
    \/ ParseBlockImage
    \/ ParseBlocks
    \/ XlogBlockParseBlocks
    \/ ParseXlogRecordHeader
    \/ ParseXlogRecord
    \/ XlogRecordParseXlogRecord
    \/ ConsumePadding
    \/ XlogRecordConsumePadding
    \/ ParseXlogPageHeader
    \/ XlogPageHeaderParseXlogPageHeader
    \/ XlogBlockParseMainDataBlockHeader
    \/ XlogRecordParseMainDataBlockHeader

Spec == Init /\ [][Next]_vars

----------------------------------------------------------------------------
(* The segment reader: XLogReader::new_from_filename on a file, then the   *)
(* calls of next() of a `for record in reader`, which ends at the first    *)
(* None.                                                                   *)

InitReader ==
    /\ fn = "next"
    /\ input = <<>>
    /\ arg = 0
    /\ overflow_checks = FALSE
    /\ pc = "call"
    /\ res = NoResult
    /\ f \in {[data |-> d, pos |-> 0] : d \in Files}
    /\ page = None
    /\ yielded = <<>>
    /\ pages = NoPages
    /\ record = NoRecord

\* the calls of next() that returned None
NonesYielded == Cardinality({k \in 1..Len(yielded) : ~yielded[k].some})

\* the caller goes on calling next() until it has got None MaxNones times
MaxNones == 2

ReaderNext ==
    /\ fn = "next"
    /\ pc \in {"call", "return"}
    /\ NonesYielded < MaxNones
    /\ \E step \in {XLogReader_next(f, page)} :
           /\ f' = step.f
           /\ page' = step.page
           /\ res' = step.read
           /\ pc' = IF step.aborted THEN "abort" ELSE "return"
           /\ yielded' = IF step.aborted THEN yielded ELSE Append(yielded, step.item)
    /\ UNCHANGED <<fn, input, arg, overflow_checks, pages, record>>

NextReader == ReaderNext

SpecReader == InitReader /\ [][NextReader]_vars

\* the caller's loop does call next() again as long as it may
SpecReaderLive == SpecReader /\ WF_vars(ReaderNext)

\* PageMapping::new, then apply_xlog_record on one decoded record after another
InitApply ==
    /\ fn = "apply_xlog_record"
    /\ input = <<>>
    /\ arg = 0
    /\ overflow_checks \in BOOLEAN
    /\ pc = "call"
    /\ res = NoResult
    /\ f = ClosedFile
    /\ page = None
    /\ yielded = <<>>
    /\ pages = NoPages
    /\ record = NoRecord

\* res holds what apply_xlog_record returned, the map it was called on, the
\* count of blocks whose image step was over when it returned or aborted
\* and the calls of apply_operation
ApplyXlogRecord ==
    /\ fn = "apply_xlog_record"
    /\ pc \in {"call", "return"}
    /\ \E rec \in ApplyRecords :
         \E out \in {apply_xlog_record(pages, rec)} :
            /\ record' = rec
            /\ pages' = out.pages
            /\ res' = [ok |-> out.res.ok, out |-> out.res, before |-> pages, done |-> out.done,
                       op_calls |-> out.op_calls]
            /\ pc' = IF ~out.res.ok /\ out.res.kind = "Panic" THEN "abort" ELSE "return"
    /\ UNCHANGED <<fn, input, arg, overflow_checks, f, page, yielded>>

NextApply == ApplyXlogRecord

SpecApply == InitApply /\ [][NextApply]_vars

\* the functions of the inspection code, each called once on one input
InspectFunctions ==
    {"num_lp", "max_offset_number", "page_get_max_offset_number",
     "parse_line_pointer", "parse_item_id_data",
     "parse_heap_tuple_header", "parse_item_pointer_data", "parse_bitmaps",
     "get_line_pointer", "get_tuple"}

InspectInputsOf(name) ==
    CASE name \in {"parse_line_pointer", "parse_item_id_data"} -> LinePointerInputs
      [] name = "parse_heap_tuple_header" -> TupleHeaderInputs
      [] name = "parse_item_pointer_data" -> ItemPointerInputs
      [] name = "parse_bitmaps" -> BitmapInputs
      [] name \in {"get_line_pointer", "get_tuple"} -> HeapPages
      [] OTHER -> {<<>>}

InspectArgsOf(name) ==
    CASE name \in {"num_lp", "max_offset_number", "page_get_max_offset_number"} -> PdLowers
      [] name = "parse_bitmaps" -> Infomask2s
      [] name \in {"get_line_pointer", "get_tuple"} -> LinePointerIndexes
      [] OTHER -> {0}

InitInspect ==
    /\ fn \in InspectFunctions
    /\ input \in InspectInputsOf(fn)
    /\ arg \in InspectArgsOf(fn)
    /\ overflow_checks = FALSE
    /\ pc = "call"
    /\ res = NoResult
    /\ f = ClosedFile
    /\ page = None
    /\ yielded = <<>>
    /\ pages = NoPages
    /\ record = NoRecord

NumLp ==
    /\ pc = "call"
    /\ fn = "num_lp"
    /\ res' = Ok(<<>>, num_lp(arg))
    /\ pc' = "return"
    /\ UNCHANGED <<fn, input, arg, overflow_checks, f, page, yielded, pages, record>>

\* the size of PageHeaderData is the one of the build
MaxOffsetNumber ==
    /\ pc = "call"
    /\ fn = "max_offset_number"
    /\ \E size \in PageHeaderDataSizes : res' = Ok(<<>>, max_offset_number(arg, size))
    /\ pc' = "return"
    /\ UNCHANGED <<fn, input, arg, overflow_checks, f, page, yielded, pages, record>>

PageGetMaxOffsetNumber ==
    /\ pc = "call"
    /\ fn = "page_get_max_offset_number"
    /\ res' = Ok(<<>>, page_get_max_offset_number(arg))
    /\ pc' = "return"
    /\ UNCHANGED <<fn, input, arg, overflow_checks, f, page, yielded, pages, record>>

ParseLinePointer ==
    /\ pc = "call"
    /\ fn = "parse_line_pointer"
    /\ res' = parse_line_pointer(input)
    /\ pc' = "return"
    /\ UNCHANGED <<fn, input, arg, overflow_checks, f, page, yielded, pages, record>>

ParseItemIdData ==
    /\ pc = "call"
    /\ fn = "parse_item_id_data"
    /\ res' = parse_item_id_data(input)
    /\ pc' = "return"
    /\ UNCHANGED <<fn, input, arg, overflow_checks, f, page, yielded, pages, record>>

ParseHeapTupleHeader ==
    /\ pc = "call"
    /\ fn = "parse_heap_tuple_header"
    /\ res' = parse_heap_tuple_header(input)
    /\ pc' = "return"
    /\ UNCHANGED <<fn, input, arg, overflow_checks, f, page, yielded, pages, record>>

ParseItemPointerData ==
    /\ pc = "call"
    /\ fn = "parse_item_pointer_data"
    /\ res' = parse_item_pointer_data(input)
    /\ pc' = "return"
    /\ UNCHANGED <<fn, input, arg, overflow_checks, f, page, yielded, pages, record>>

ParseBitmaps ==
    /\ pc = "call"
    /\ fn = "parse_bitmaps"
    /\ res' = parse_bitmaps(input, arg)
    /\ pc' = "return"
    /\ UNCHANGED <<fn, input, arg, overflow_checks, f, page, yielded, pages, record>>

\* parse_page on the 8192 bytes, then Page::get_line_pointer
GetLinePointer ==
    /\ pc = "call"
    /\ fn = "get_line_pointer"
    /\ res' = Only({IF pg.ok THEN get_line_pointer(pg.val, arg) ELSE pg : pg \in {parse_page(input)}})
    /\ pc' = "return"
    /\ UNCHANGED <<fn, input, arg, overflow_checks, f, page, yielded, pages, record>>

\* parse_page on the 8192 bytes, then Page::get_tuple
GetTuple ==
    /\ pc = "call"
    /\ fn = "get_tuple"
    /\ res' = Only({IF pg.ok THEN get_tuple(pg.val, arg) ELSE pg : pg \in {parse_page(input)}})
    /\ pc' = "return"
    /\ UNCHANGED <<fn, input, arg, overflow_checks, f, page, yielded, pages, record>>

NextInspect ==
    \/ NumLp
    \/ MaxOffsetNumber
    \/ PageGetMaxOffsetNumber
    \/ ParseLinePointer
    \/ ParseItemIdData
    \/ ParseHeapTupleHeader
    \/ ParseItemPointerData
    \/ ParseBitmaps
    \/ GetLinePointer
    \/ GetTuple

SpecInspect == InitInspect /\ [][NextInspect]_vars

----------------------------------------------------------------------------
(* Properties of the block-reference decoder *)

\* the descriptions a buffer was written from
BodiesOf(b) == {p[2] : p \in {q \in BodyTable : q[1] = b}}

RecordsOf(b) == {p[2] : p \in {q \in RecordTable : q[1] = b}}

\* what a decoded list holds: per entry its id, image bytes and data bytes
PayloadsOf(blocks) ==
    [k \in 1..Len(blocks) |->
        [blk_id |-> blocks[k].blk_id,
         image |-> IF blocks[k].image.some THEN blocks[k].image.v.bkp_image ELSE <<>>,
         data |-> blocks[k].data]]

\* what the body was written from: the data block references in header
\* order, then the one main-data entry
ExpectedPayloads(d) ==
    [k \in 1..(Len(d.shape) + 1) |->
        IF k <= Len(d.shape)
        THEN [blk_id |-> d.shape[k].id, image |-> BlockImage(d, k), data |-> BlockData(d, k)]
        ELSE [blk_id |-> IF d.main.long THEN XLR_BLOCK_ID_DATA_LONG
                         ELSE XLR_BLOCK_ID_DATA_SHORT,
              image |-> <<>>,
              data |-> d.main.data]]

\* C1: parse_blocks of src/src/xlog/block.rs, applied to a body of data
\* block headers, a short main-data header and the payloads in header order,
\* succeeds and lists the data block references in input order, each with
\* its image and data bytes, followed by exactly one main-data entry that
\* holds the main data.
C1_PayloadsInHeaderOrder ==
    (pc = "return" /\ fn = "parse_blocks") =>
        \A d \in BodiesOf(input) :
            (WellFormedBody(d) /\ ~d.main.long) =>
                (res.ok /\ PayloadsOf(res.val.blocks) = ExpectedPayloads(d))

\* the same statement of parse_blocks of src/src/xlog_block.rs, which reads
\* the main-data header
XlogBlockPayloadsInHeaderOrder ==
    (pc = "return" /\ fn = "xlog_block_parse_blocks") =>
        \A d \in BodiesOf(input) :
            (WellFormedBody(d) /\ ~d.main.long) =>
                (res.ok /\ PayloadsOf(res.val) = ExpectedPayloads(d))

\* the bytes a decoded data block reference took: its header (id, fork and
\* flags, data length, the image header, the locator unless shared, the
\* block number), its image and its data
BlockRefSize(b) ==
    4
    + (IF b.image.some
       THEN 5 + (IF /\ BitAnd(b.image.v.bimg_info, BKPIMAGE_IS_COMPRESSED) # 0
                    /\ BitAnd(b.image.v.bimg_info, BKPIMAGE_HAS_HOLE) # 0
                 THEN 2 ELSE 0)
            + Len(b.image.v.bkp_image)
       ELSE 0)
    + (IF BitAnd(b.flags, BKPBLOCK_SAME_REL) # 0 THEN 0 ELSE 12)
    + 4
    + Len(b.data)

RECURSIVE BlockRefSizes(_, _)
BlockRefSizes(blocks, k) ==
    IF k > Len(blocks) THEN 0 ELSE BlockRefSize(blocks[k]) + BlockRefSizes(blocks, k + 1)

IsDataBlock(b) == b.page_id.some

IdsStrictlyIncrease(blocks) ==
    \A j, k \in 1..Len(blocks) :
        (j < k /\ IsDataBlock(blocks[j]) /\ IsDataBlock(blocks[k])) =>
            blocks[j].blk_id < blocks[k].blk_id

DecodedBlocks ==
    CASE fn = "parse_blocks" -> res.val.blocks
      [] fn = "xlog_block_parse_blocks" -> res.val
      [] fn = "parse_xlog_record" -> res.val.blocks

\* the data block headers 1..k of the body are ones the format allows
HeadersAllowed(d, k) ==
    /\ \A j \in 1..k : d.shape[j].id < XLR_MAX_BLOCK_ID
    /\ \A j \in 1..(k - 1) : d.shape[j].id < d.shape[j + 1].id
    /\ (k >= 1 => ~d.shape[1].same_rel)

\* C3: in every decoded list the ids of the data block references strictly
\* increase; a body in which a data block header has an id less than or
\* equal to the one before it fails with InvalidBlockId(previous, current).
C3_BlockIdsStrictlyIncrease ==
    (pc = "return" /\ fn \in {"parse_blocks", "xlog_block_parse_blocks", "parse_xlog_record"}) =>
        /\ res.ok => IdsStrictlyIncrease(DecodedBlocks)
        /\ fn # "parse_xlog_record" =>
               \A d \in BodiesOf(input) : \A k \in 1..(Len(d.shape) - 1) :
                   (/\ HeadersAllowed(d, k)
                    /\ d.shape[k + 1].id <= d.shape[k].id) =>
                       /\ IsErr(res, "InvalidBlockId")
                       /\ res.args = <<d.shape[k].id, d.shape[k + 1].id>>

\* a body that repeats id 0 has been refused
C3_Witness ==
    /\ pc = "return"
    /\ fn = "parse_blocks"
    /\ IsErr(res, "InvalidBlockId")
    /\ res.args = <<0, 0>>

\* C4: an id byte is a data block reference only when it is below 32: no
\* decoded list holds an entry with an id in 32..0xFB, and a body with a
\* header id in 32..0xFB is not decoded.
C4_OnlyIdsBelow32AreBlocks ==
    (pc = "return" /\ fn \in {"parse_blocks", "xlog_block_parse_blocks"}) =>
        /\ res.ok =>
               \A k \in 1..Len(DecodedBlocks) :
                   \/ DecodedBlocks[k].blk_id < 32
                   \/ DecodedBlocks[k].blk_id >= XLR_BLOCK_ID_DATA_LONG
        /\ \A d \in BodiesOf(input) : \A k \in 1..Len(d.shape) :
               (/\ HeadersAllowed(d, k - 1)
                /\ d.shape[k].id \in 32..251) =>
                   ~res.ok

\* the alignment bytes after a record of xl_tot_len bytes
Pad(xl_tot_len) == (8 - (xl_tot_len % 8)) % 8

\* C5: a Heap Insert record that is laid out as the format defines decodes,
\* and the Insert of every decoded Heap record is read from the main data:
\* off is the little-endian u16 of its first two bytes, the flags are its
\* third byte.
C5_HeapInsertReadsMainData ==
    (pc = "return" /\ fn = "parse_xlog_record") =>
        \A r \in RecordsOf(input) :
            (r.rmid = RmgrHeap /\ r.info = 0) =>
                /\ (/\ WellFormedBody(r.body)
                    /\ Len(r.body.main.data) >= 3
                    /\ r.zeros = Pad(XLOG_RECORD_HEADER_SIZE + Len(EncBody(r.body)))
                    /\ r.follow = 0) => res.ok
                /\ res.ok =>
                       /\ res.val.operation.rm = "Heap"
                       /\ res.val.operation.heap.op = "Insert"
                       /\ Len(r.body.main.data) >= 3
                       /\ res.val.operation.heap.offnum
                              = r.body.main.data[1] + 256 * r.body.main.data[2]
                       /\ res.val.operation.heap.contains_new_tuple
                              = (BitAnd(r.body.main.data[3], 8) # 0)

----------------------------------------------------------------------------
(* Properties of the record decoder *)

\* C6: after a record decode succeeds on a buffer that holds the record and
\* its alignment bytes, the input left starts xl_tot_len + pad bytes after
\* the record start, pad being what aligns xl_tot_len to 8, whatever the
\* count of bytes that follow in the buffer.
C6_NextRecordIsAligned ==
    (/\ pc = "return"
     /\ fn \in {"parse_xlog_record", "xlog_record_parse_xlog_record"}
     /\ res.ok
     /\ Len(input) >= res.val.header.xl_tot_len + Pad(res.val.header.xl_tot_len)) =>
        Len(input) - Len(res.rest)
            = res.val.header.xl_tot_len + Pad(res.val.header.xl_tot_len)

\* C7: consume_padding of K bytes, 1 <= K <= 8, succeeds only if the K bytes
\* are all zero; with one of them non-zero it fails with
\* IncorrectPaddingValue of the K bytes.
C7_PaddingIsAllZero ==
    (/\ pc = "return"
     /\ fn \in {"consume_padding", "xlog_record_consume_padding"}
     /\ arg \in 1..8
     /\ Len(input) >= arg) =>
        IF \A k \in 1..arg : input[k] = 0
        THEN res.ok
        ELSE IsErr(res, "IncorrectPaddingValue") /\ res.args = SubSeq(input, 1, arg)

\* the header fields as the buffer holds them
TotLenOf(buf) == buf[1] + 256 * buf[2] + 65536 * buf[3] + 16777216 * buf[4]

\* a header the decoder has nothing against: a total length that covers the
\* header, a known resource manager, zero alignment bytes
HeaderIsValid(buf) ==
    /\ Len(buf) >= XLOG_RECORD_HEADER_SIZE
    /\ TotLenOf(buf) >= XLOG_RECORD_HEADER_SIZE
    /\ buf[18] < Len(RmgrNames)
    /\ buf[19] = 0
    /\ buf[20] = 0

\* C8: parse_xlog_record_header yields no header and reports Incomplete on
\* fewer than 24 bytes, EmptyRecord on at least 24 bytes with xl_tot_len = 0,
\* and Incomplete on a valid header with fewer than xl_tot_len bytes in all.
C8_HeaderErrors ==
    (pc = "return" /\ fn = "parse_xlog_record_header") =>
        /\ Len(input) < XLOG_RECORD_HEADER_SIZE =>
               (~res.ok /\ res.kind = "Incomplete")
        /\ (Len(input) >= XLOG_RECORD_HEADER_SIZE /\ TotLenOf(input) = 0) =>
               IsErr(res, "EmptyRecord")
        /\ (HeaderIsValid(input) /\ Len(input) < TotLenOf(input)) =>
               (~res.ok /\ res.kind = "Incomplete")

\* a valid header whose record goes past the end of the buffer was reported Incomplete
C8_Witness ==
    /\ pc = "return"
    /\ fn = "parse_xlog_record_header"
    /\ HeaderIsValid(input)
    /\ Len(input) > XLOG_RECORD_HEADER_SIZE
    /\ Len(input) < TotLenOf(input)
    /\ ~res.ok
    /\ res.kind = "Incomplete"

----------------------------------------------------------------------------
(* Properties of the page-header and block-image decoders *)

\* C9: a page header is accepted only with the magic 0xD10D and no info bit
\* outside 0x000F; any other magic or info fails with InvalidPageHeader.
C9_PageHeaderValidity ==
    (/\ pc = "return"
     /\ fn \in {"parse_xlog_page_header", "xlog_page_header_parse_xlog_page_header"}
     /\ Len(input) >= LongPageHeaderSize) =>
        LET xlp_magic == input[1] + 256 * input[2]
            xlp_info == input[3] + 256 * input[4]
        IN
        IF xlp_magic = XLP_MAGIC /\ BitAnd(xlp_info, 65535 - XLP_ALL_FLAGS) = 0
        THEN TRUE
        ELSE IsErr(res, "InvalidPageHeader")

\* C10: hole_length is the u16 read when compressed with a hole, 0 when
\* compressed without one, 8192 - bimg_len when not compressed (checked
\* where bimg_len is at most 8192, so that the difference is a u16); with
\* HAS_HOLE the header is accepted iff hole_offset > 0, hole_length > 0 and
\* bimg_len < 8192, and otherwise fails with
\* InvalidBlockImageHole(hole_offset, hole_length, bimg_len).
C10_ImageHole ==
    (pc = "return" /\ fn = "parse_block_image" /\ Len(input) >= 7) =>
        LET bimg_len == input[1] + 256 * input[2]
            hole_offset == input[3] + 256 * input[4]
            is_compressed == BitAnd(input[5], BKPIMAGE_IS_COMPRESSED) # 0
            has_hole == BitAnd(input[5], BKPIMAGE_HAS_HOLE) # 0
            hole_length == IF is_compressed
                           THEN IF has_hole THEN input[6] + 256 * input[7] ELSE 0
                           ELSE BLCKSZ - bimg_len
        IN
        /\ (res.ok /\ (is_compressed \/ bimg_len <= BLCKSZ)) =>
               res.val.hole_length = hole_length
        /\ has_hole =>
               IF hole_offset > 0 /\ hole_length > 0 /\ bimg_len < BLCKSZ
               THEN res.ok
               ELSE /\ IsErr(res, "InvalidBlockImageHole")
                    /\ res.args[1] = hole_offset
                    /\ (is_compressed \/ bimg_len <= BLCKSZ) => res.args[2] = hole_length
                    /\ res.args[3] = bimg_len

----------------------------------------------------------------------------
(* Properties of the block-reference decoder: locators, extensions, main data *)

\* the locator block k of a body was written with: its own, or the one of
\* the block before it when it shares the relation
RECURSIVE ExpectedLocator(_, _)
ExpectedLocator(d, k) ==
    IF d.shape[k].same_rel /\ k > 1 THEN ExpectedLocator(d, k - 1)
    ELSE IF d.shape[k].other_rel THEN parse_relfilenode(OtherLocator).val
    ELSE parse_relfilenode(Locator).val

DataBlocksOf(blocks) == SelectSeq(blocks, IsDataBlock)

\* C11: a data block reference with SAME_REL set has a block before it and
\* the locator of that block, and consumes no locator bytes; with SAME_REL
\* set on the first data block reference the decode fails with
\* OutOfOrderBlock; with SAME_REL clear the 12 bytes of the locator are
\* consumed (the block number that follows them is read where it was written).
C11_SameRelInheritsLocator ==
    (pc = "return" /\ fn \in {"parse_blocks", "xlog_block_parse_blocks"}) =>
        /\ res.ok =>
               \A k \in 1..Len(DataBlocksOf(DecodedBlocks)) :
                   BitAnd(DecodedBlocks[k].flags, BKPBLOCK_SAME_REL) # 0 =>
                       /\ k > 1
                       /\ DecodedBlocks[k].page_id.v.locator
                              = DecodedBlocks[k - 1].page_id.v.locator
        /\ \A d \in BodiesOf(input) :
               /\ (/\ d.shape # <<>>
                   /\ d.shape[1].same_rel
                   /\ d.shape[1].id < XLR_MAX_BLOCK_ID) =>
                       IsErr(res, "OutOfOrderBlock")
               /\ res.ok =>
                      /\ Len(DataBlocksOf(DecodedBlocks)) = Len(d.shape)
                      /\ \A k \in 1..Len(d.shape) :
                             /\ DecodedBlocks[k].page_id.v.locator = ExpectedLocator(d, k)
                             /\ DecodedBlocks[k].page_id.v.blockno = le_u32(BlockNo).val

\* a body whose third block shares the relation of the second, which is not
\* the relation of the first, has been decoded
C11_Witness ==
    /\ pc = "return"
    /\ fn = "parse_blocks"
    /\ res.ok
    /\ Len(res.val.blocks) = 3
    /\ BitAnd(res.val.blocks[3].flags, BKPBLOCK_SAME_REL) # 0
    /\ res.val.blocks[3].page_id.v.locator = parse_relfilenode(OtherLocator).val
    /\ res.val.blocks[1].page_id.v.locator # res.val.blocks[3].page_id.v.locator

\* C12: a body that is laid out as the format defines it and holds a
\* replication origin (0xFD, u16) or a top-level xid (0xFC, u32) between its
\* block headers and its main-data header decodes: the extension is
\* consumed, the data block references and the main data are those of the
\* body.
C12_ExtensionsAreConsumed ==
    (pc = "return" /\ fn \in {"parse_blocks", "xlog_block_parse_blocks"}) =>
        \A d \in BodiesOf(input) :
            (WellFormedBody(d) /\ d.ext # <<>>) =>
                /\ res.ok
                /\ Len(DataBlocksOf(DecodedBlocks)) = Len(d.shape)

MainHeadersOf(b) == {p[2] : p \in {q \in MainHeaderTable : q[1] = b}}

\* C13: the length of a main-data header is a u32 under the long id 0xFE and
\* a u8 under the short id 0xFF: the decoder consumes 5 header bytes in the
\* long case and 2 in the short case, and the main-data length is the value
\* that was written.
C13_MainDataLength ==
    (/\ pc = "return"
     /\ fn \in {"xlog_block_parse_main_data_block_header",
                "xlog_record_parse_main_data_block_header"}) =>
        \A m \in MainHeadersOf(input) :
            /\ res.ok
            /\ res.val.data_len = m.len
            /\ Len(input) - Len(res.rest) = (IF m.long THEN 5 ELSE 2)

----------------------------------------------------------------------------
(* Properties of the segment reader *)

FilesOf(data) == {p[2] : p \in {q \in FileTable : q[1] = data}}

\* a file whose pages have the magic and zero alignment bytes
Intact(d) == d.bad_magic = 0 /\ ~d.bad_pad

\* the records of a log, by xid, in the order they stand in the log
RecordsOfLog(log) == {k \in 1..Len(log) : log[k] # ZeroFill}

\* the logs with a record that starts on one page and ends on the next
SpanningLogs ==
    {log \in Logs : \E s \in StreamOf(log).spans : \E p \in 2..3 :
        s.start < PageStart(p) /\ PageStart(p) < s.end}

\* the for loop over the reader is over: a call returned None or the program aborted
IterationEnded ==
    \/ pc = "abort"
    \/ (yielded # <<>> /\ ~yielded[Len(yielded)].some)

YieldedRecords == SelectSeq(yielded, LAMBDA y : y.some)

YieldedXids == [j \in 1..Len(YieldedRecords) |-> YieldedRecords[j].v.header.xl_xid]

MainDataOf(r) == r.blocks[Len(r.blocks)].data

\* C14: when a record starts on page N and ends on page N+1, the reader
\* yields it as if its bytes were contiguous, yields the records before it
\* on page N and goes on with the records after it on page N+1: at the end
\* of the iteration every record of the log has been yielded with its main
\* data.
C14_SpanningRecordIsJoined ==
    (fn = "next" /\ IterationEnded) =>
        \A d \in FilesOf(f.data) :
            (Intact(d) /\ d.log \in SpanningLogs) =>
                /\ pc # "abort"
                /\ \A k \in RecordsOfLog(d.log) :
                       \E j \in 1..Len(YieldedRecords) :
                           /\ YieldedRecords[j].v.header.xl_xid = k
                           /\ MainDataOf(YieldedRecords[j].v) = LogData(k, d.log[k].main)

\* C15: the calls of next() yield the records of the segment in the order
\* of the log: what has been yielded so far is the first records of the
\* log, in their order.
C15_RecordsInLogOrder ==
    fn = "next" =>
        \A d \in FilesOf(f.data) :
            Intact(d) =>
                /\ Len(YieldedXids) <= Cardinality(RecordsOfLog(d.log))
                /\ \A j \in 1..Len(YieldedXids) :
                       /\ YieldedXids[j] \in RecordsOfLog(d.log)
                       /\ Cardinality({k \in RecordsOfLog(d.log) : k < YieldedXids[j]}) = j - 1

\* C16: when the read of the next page fails with a framing error, not with
\* the end of the file, the call of next() does not return the None that
\* ends the iteration.
C16_FramingErrorsSurface ==
    (fn = "next" /\ pc = "return" /\ ~res.ok /\ res.kind = "ParseError") =>
        yielded[Len(yielded)] # None

----------------------------------------------------------------------------
(* Page map claims, under SpecApply *)

Applied == fn = "apply_xlog_record" /\ pc \in {"return", "abort"}

\* the entry of the map under a page identity, None when there is none
EntryOf(pgs, id) == IF id \in DOMAIN pgs THEN Some(pgs[id]) ELSE None

ImagesOf(rec) == {k \in 1..Len(rec.blocks) : rec.blocks[k].image.some}

\* C17: apply on a record whose resource manager is neither Heap nor Heap2
\* returns success and leaves the page map as it was, same keys and same
\* pages, whatever blocks and images the record carries.
C17_OtherManagersAreIgnored ==
    (Applied /\ record.header.xl_rmid \notin {"Heap", "Heap2"})
        => /\ pc = "return"
           /\ res.ok
           /\ DOMAIN pages = DOMAIN res.before
           /\ \A id \in DOMAIN pages : pages[id] = res.before[id]

\* a Btree record with an uncompressed image was applied to a map that holds a page
C17_Witness ==
    /\ Applied
    /\ record.header.xl_rmid = "Btree"
    /\ \E k \in ImagesOf(record) : ~ImageIsCompressed(record.blocks[k].image.v)
    /\ DOMAIN res.before # {}
    /\ res.ok

\* the blocks of the record whose image step is over, with an uncompressed
\* image that has a hole, and no later such step for the same page
RestoredWithHole ==
    {k \in ImagesOf(record) :
        /\ k <= res.done
        /\ record.blocks[k].page_id.some
        /\ BitAnd(record.blocks[k].image.v.bimg_info, BKPIMAGE_HAS_HOLE) # 0
        /\ BitAnd(record.blocks[k].image.v.bimg_info, BKPIMAGE_IS_COMPRESSED) = 0
        /\ \A k2 \in ImagesOf(record) :
              (k < k2 /\ k2 <= res.done) => record.blocks[k2].page_id # record.blocks[k].page_id}

\* byte j of the page: the image up to hole_offset, hole_length zeros, the rest of the image
HolePageByte(image, j) ==
    IF j <= image.hole_offset THEN image.bkp_image[j]
    ELSE IF j <= image.hole_offset + image.hole_length THEN 0
    ELSE image.bkp_image[j - image.hole_length]

\* C18: after apply restored an uncompressed image with HAS_HOLE for a block,
\* the page stored under the block's page identity is 8192 bytes: the image
\* up to hole_offset, hole_length zeros, the image from hole_offset on; the
\* page that was stored under that identity before is replaced.
C18_HoleIsZeroFilled ==
    Applied =>
        \A k \in RestoredWithHole :
            LET id == record.blocks[k].page_id.v
                image == record.blocks[k].image.v
            IN /\ id \in DOMAIN pages
               /\ Len(pages[id]) = BLCKSZ
               /\ \A j \in 1..BLCKSZ : pages[id][j] = HolePageByte(image, j)

\* an image with the hole inside it replaced a different page
C18_Witness ==
    /\ Applied
    /\ res.ok
    /\ \E k \in RestoredWithHole :
          LET id == record.blocks[k].page_id.v
              image == record.blocks[k].image.v
          IN /\ image.hole_offset > 0
             /\ image.hole_offset < image.bimg_len
             /\ id \in DOMAIN res.before
             /\ res.before[id] # pages[id]

\* C19: apply restores an image only for the blocks whose image has the
\* APPLY bit; a block whose image has APPLY = 0 leaves the entry of the map
\* for its page identity as it was.
C19_OnlyApplyImagesAreRestored ==
    Applied =>
        \A k \in ImagesOf(record) :
            LET b == record.blocks[k] IN
            (/\ b.page_id.some
             /\ ~b.image.v.apply_image
             /\ \A k2 \in ImagesOf(record) :
                   record.blocks[k2].page_id = b.page_id => ~record.blocks[k2].image.v.apply_image)
                => EntryOf(pages, b.page_id.v) = EntryOf(res.before, b.page_id.v)

\* C20: apply on a Heap or Heap2 record whose first block carries a
\* compressed image returns an error to the caller: the program does not
\* abort and no page is stored for the image.
C20_CompressedImageIsAnError ==
    (/\ Applied
     /\ record.header.xl_rmid \in {"Heap", "Heap2"}
     /\ 1 \in ImagesOf(record)
     /\ record.blocks[1].page_id.some
     /\ ImageIsCompressed(record.blocks[1].image.v))
        => /\ pc = "return"
           /\ ~res.ok
           /\ EntryOf(pages, record.blocks[1].page_id.v)
                  = EntryOf(res.before, record.blocks[1].page_id.v)

\* the pages the record's uncompressed images restore, by page identity
RecordChangesIn(pgs) ==
    \A k \in ImagesOf(record) :
        (/\ record.blocks[k].page_id.some
         /\ ~ImageIsCompressed(record.blocks[k].image.v))
            => record.blocks[k].page_id.v \in DOMAIN pgs

\* C21: apply is atomic per record: either it succeeds and all the changes
\* of the record are in the map, or it fails and the map is the map before
\* the call; no page of an earlier block stays when a later block or the
\* operation is rejected.
C21_ApplyIsAtomic ==
    (Applied /\ record.header.xl_rmid \in {"Heap", "Heap2"})
        => \/ res.ok /\ RecordChangesIn(pages)
           \/ ~res.ok /\ pages = res.before

\* C25: for a Heap or Heap2 record apply_xlog_record applies the operation
\* exactly once, whatever the number of blocks of the record, and only
\* after every image of the record has been restored.
C25_OperationAppliedOnce ==
    (Applied /\ pc = "return" /\ record.header.xl_rmid \in {"Heap", "Heap2"})
        => /\ Len(res.op_calls) = 1
           /\ \A k \in ImagesOf(record) : k <= res.op_calls[1]

----------------------------------------------------------------------------
(* Record lengths below the header size *)

\* C27: on at least 24 bytes whose xl_tot_len is in 1..23,
\* parse_xlog_record_header and parse_xlog_record return an error value: the
\* subtraction xl_tot_len - 24 does not underflow and no record is produced.
C27_ShortTotLenIsAnError ==
    (/\ pc = "return"
     /\ fn \in {"parse_xlog_record_header", "parse_xlog_record", "xlog_record_parse_xlog_record"}
     /\ Len(input) >= XLOG_RECORD_HEADER_SIZE
     /\ TotLenOf(input) \in 1..(XLOG_RECORD_HEADER_SIZE - 1))
        => (~res.ok /\ res.kind \in {"Error", "Failure", "Incomplete"})

\* C28: every uncompressed image that parse_block_image accepts has
\* hole_offset <= bimg_len and bimg_len + hole_length = 8192, so apply_image
\* builds 8192 bytes from it and aborts neither on a slice nor on the
\* conversion to a page.
C28_AcceptedImagesFitAPage ==
    (/\ pc = "return"
     /\ fn = "parse_block_image"
     /\ res.ok
     /\ ~ImageIsCompressed(res.val))
        => /\ res.val.hole_offset <= res.val.bimg_len
           /\ res.val.bimg_len + res.val.hole_length = BLCKSZ
           /\ apply_image(NoPages, ApplyBlock(0, 5, Some(res.val)), res.val).ok

----------------------------------------------------------------------------
(* The reader after a None *)

\* C29: the iterator of the reader is fused: once next() has returned None
\* every later call of next() on the same reader returns None too; no
\* record of a later page is yielded after a None.
C29_IteratorIsFused ==
    fn = "next" =>
        \A j \in 1..Len(yielded) : \A k \in 1..Len(yielded) :
            (j < k /\ ~yielded[j].some) => ~yielded[k].some

\* C30: on any finite file the calls of next() come to one that returns None.
C30_EventuallyNone ==
    <>(fn = "next" => NonesYielded > 0)

\* what does hold: the calls come to one that returns None or aborts the program
C30_IterationEnds ==
    <>(fn = "next" => IterationEnded)

----------------------------------------------------------------------------
(* Properties of the heap page inspection, under SpecInspect *)

Consumed == Len(input) - Len(res.rest)

\* C22: the number of line pointers the decoder exposes for a page is
\* (pd_lower - 24) / 4, rounded down, when pd_lower > 24 and 0 otherwise.
C22_LinePointerCount ==
    (pc = "return" /\ fn \in {"num_lp", "max_offset_number", "page_get_max_offset_number"})
        => res.val = (IF arg > 24 THEN (arg - 24) \div 4 ELSE 0)

\* C23: a line pointer of bytes b0 b1 b2 b3, w = b0 + 256 b1 + 65536 b2 +
\* 16777216 b3, decodes to lp_off = w mod 2^15, lp_flags = (w div 2^15) mod 4
\* and lp_len = w div 2^17, and exactly 4 bytes are consumed.
C23_LinePointerBits ==
    (/\ pc = "return"
     /\ fn \in {"parse_line_pointer", "parse_item_id_data"}
     /\ Len(input) >= 4)
        => LET low == input[1] + 256 * input[2] + 65536 * input[3] IN
           /\ res.ok
           /\ res.val.lp_off = low % 32768
           /\ res.val.lp_flags = (low \div 32768) % 4
           /\ res.val.lp_len = (low \div 131072) + 128 * input[4]
           /\ Consumed = 4

\* C24: decoding a tuple header consumes 23 bytes of fixed fields, of which
\* the ctid takes a u32 and a u16, and then a null bitmap of ceil(natts / 8)
\* bytes, natts = t_infomask2 & 0x07FF.
C24_TupleHeaderLength ==
    pc = "return" =>
        /\ (fn = "parse_heap_tuple_header" /\ res.ok) =>
               Consumed = 23 + (BitAnd(res.val.t_infomask2, 2047) + 7) \div 8
        /\ (fn = "parse_item_pointer_data" /\ res.ok) => Consumed = 6
        /\ (fn = "parse_bitmaps" /\ res.ok) => Consumed = (BitAnd(arg, 2047) + 7) \div 8

\* pd_lower of a page buffer
PdLowerOf(buf) == buf[13] + 256 * buf[14]

\* C26: get_line_pointer(i) returns a line pointer if and only if
\* i < num_lp(); for i >= num_lp() it returns InvalidOffset(i, num_lp()),
\* and get_tuple(i) fails the same way for those indexes.
C26_LinePointerIndexInRange ==
    (pc = "return" /\ fn \in {"get_line_pointer", "get_tuple"})
        => /\ arg >= num_lp(PdLowerOf(input)) =>
                  (IsErr(res, "InvalidOffset") /\ res.args = <<arg, num_lp(PdLowerOf(input))>>)
           /\ (fn = "get_line_pointer" /\ arg < num_lp(PdLowerOf(input))) => res.ok

============================================================================
